---- MODULE Spec2Model ----
(***************************************************************************)
(* Consumable-resource node selection (select/cons_res): the per-partition *)
(* row table, the node usage table, the job resources records and the job  *)
(* lifecycle operations that mutate them.                                  *)
(*                                                                         *)
(* Bitmaps are modelled as sets of bit positions.  A job's core_bitmap is  *)
(* kept PACKED as in the source (no gaps for unselected nodes) and is      *)
(* projected on the global core numbering through the core-map offsets     *)
(* whenever it meets a row bitmap.                                         *)
(***************************************************************************)
EXTENDS Integers, Sequences, FiniteSets, TLC

(* ------------------------------ bounds --------------------------------- *)
NodeCnt == 2        \* select_node_cnt: nodes of the cluster
CoresPerNode == 2   \* cores of every node
MaxRows == 3        \* largest num_rows of the partition
MaxJobs == 5        \* job records of the controller's job table
MemJobs == 3        \* jobs alive at a time when memory is a consumable resource
MaxCpus == 4        \* processors one job can accumulate by merging
MaxNodeState == 2   \* largest node_state a node is driven to
LifeJobs == 2       \* jobs alive at a time when jobs are suspended and merged
MaxThreads == 2     \* most threads per core of a node
MaxTime == 3        \* last value of the clock behind last_node_update
MaxScript == 5      \* calls of a scripted scenario
RealMem == 3        \* configured real_memory of every node
MemSpecLimit == 1   \* configured mem_spec_limit of every node

(* --------------------------- program constants ------------------------- *)
SLURM_SUCCESS == 0
SLURM_ERROR == -1
SLURM_NO_CHANGE_IN_DATA == 1900
NODE_CR_AVAILABLE == 0
NODE_CR_ONE_ROW == 1
NULL == 0

Nodes == 0 .. (NodeCnt - 1)
JobIds == 1 .. MaxJobs

(* cr_node_num_cores[n]: cores of node n *)
cr_node_num_cores == [n \in Nodes |-> CoresPerNode]

RECURSIVE CoresBefore(_)
CoresBefore(n) ==
  IF n = 0 THEN 0 ELSE CoresBefore(n - 1) + cr_node_num_cores[n - 1]

(* cr_node_cores_offset: prefix sum of the cores of the nodes before n;    *)
(* the table has NodeCnt + 1 entries                                       *)
cr_node_cores_offset == [n \in 0 .. NodeCnt |-> CoresBefore(n)]

cr_get_coremap_offset(n) == cr_node_cores_offset[n]

Cores == 0 .. (cr_get_coremap_offset(NodeCnt) - 1)

(* ------------------------------ bitstring ------------------------------ *)
SetMin(S) == CHOOSE x \in S : \A y \in S : x <= y
SetMax(S) == CHOOSE x \in S : \A y \in S : x >= y
bit_ffs(b) == IF b = {} THEN -1 ELSE SetMin(b)
bit_fls_first(b) == IF b = {} THEN -1 ELSE SetMin(b)
bit_fls(b) == IF b = {} THEN -1 ELSE SetMax(b)
bit_set_count(b) == Cardinality(b)

(* sum of the first n entries of an array *)
RECURSIVE SumUpTo(_, _)
SumUpTo(s, n) == IF n = 0 THEN 0 ELSE s[n] + SumUpTo(s, n - 1)

(* sum of the entries of an array *)
SumSeq(s) == SumUpTo(s, Len(s))

(* nodes of a node bitmap in ascending order *)
RECURSIVE NodeList(_)
NodeList(nb) ==
  IF nb = {} THEN <<>>
  ELSE <<SetMin(nb)>> \o NodeList(nb \ {SetMin(nb)})

(* rank (0-based) of node n within node bitmap nb *)
Rank(nb, n) == Cardinality({m \in nb : m < n})

(* first bit of node n's slice in a core bitmap packed over nb *)
RECURSIVE PackedOffsetOf(_, _)
PackedOffsetOf(nb, n) ==
  LET before == {m \in nb : m < n}
  IN IF before = {} THEN 0
     ELSE LET m == SetMax(before)
          IN PackedOffsetOf(nb, m) + cr_node_num_cores[m]

(* drop element i (1-based) of a sequence *)
DropAt(s, i) == [k \in 1 .. (Len(s) - 1) |-> IF k < i THEN s[k] ELSE s[k + 1]]

(* --------------------- job resources record (JRR) ---------------------- *)
(* core_bitmap of a job projected to global core positions:                *)
(* bit offset(n) + k for every set bit k of node n's packed slice          *)
Project(job) ==
  UNION { { cr_get_coremap_offset(n) + k :
              k \in { c \in 0 .. (cr_node_num_cores[n] - 1) :
                        (PackedOffsetOf(job.node_bitmap, n) + c) \in job.core_bitmap } } :
          n \in job.node_bitmap }

(* global core positions of node n *)
NodeCoreRange(n) ==
  cr_get_coremap_offset(n) .. (cr_get_coremap_offset(n + 1) - 1)

(* add_job_to_cores: OR the job's cores into a full core bitmap *)
add_job_to_cores(job, full_core_bitmap) == full_core_bitmap \cup Project(job)

(* remove_job_from_cores: clear the job's cores in a full core bitmap *)
remove_job_from_cores(job, full_core_bitmap) == full_core_bitmap \ Project(job)

(* job_fits_into_cores that refuses every job *)
job_fits_into_cores_never(job, full_core_bitmap) == FALSE

(* job_fits_into_cores: no core of the job is set in the full core bitmap; *)
(* a whole-node job needs every one of its nodes free of set bits          *)
job_fits_into_cores(job, full_core_bitmap) ==
  /\ Project(job) \cap full_core_bitmap = {}
  /\ job.whole_node =>
       \A n \in job.node_bitmap : NodeCoreRange(n) \cap full_core_bitmap = {}

(* count_job_resources_node: set bits of the node at rank n (0-based) *)
count_job_resources_node(job, n) ==
  LET node == NodeList(job.node_bitmap)[n + 1]
      off == PackedOffsetOf(job.node_bitmap, node)
  IN Cardinality({b \in job.core_bitmap :
                    off <= b /\ b < off + cr_node_num_cores[node]})

(* extract_job_resources_node that leaves nhosts as it was *)
extract_job_resources_node_keep_nhosts(job, n) ==
  LET node == NodeList(job.node_bitmap)[n + 1]
      off == PackedOffsetOf(job.node_bitmap, node)
      len == cr_node_num_cores[node]
  IN [job EXCEPT
        !.node_bitmap = @ \ {node},
        !.cpus = DropAt(@, n + 1),
        !.memory_allocated = DropAt(@, n + 1),
        !.core_bitmap = {b \in @ : b < off} \cup
                        {b - len : b \in {c \in @ : c >= off + len}}]

(* extract_job_resources_node: drop the node at rank n (0-based) from the  *)
(* record: per-node arrays, packed core bits, node bit, nhosts             *)
extract_job_resources_node(job, n) ==
  LET node == NodeList(job.node_bitmap)[n + 1]
      off == PackedOffsetOf(job.node_bitmap, node)
      len == cr_node_num_cores[node]
  IN [job EXCEPT
        !.node_bitmap = @ \ {node},
        !.nhosts = @ - 1,
        !.cpus = DropAt(@, n + 1),
        !.memory_allocated = DropAt(@, n + 1),
        !.core_bitmap = {b \in @ : b < off} \cup
                        {b - len : b \in {c \in @ : c >= off + len}}]

(* ------------------------- partition row table -------------------------- *)
(* struct part_row_data: a row with no job and no bitmap allocated yet     *)
EmptyRow ==
  [num_jobs |-> 0, job_list |-> <<>>, has_bitmap |-> FALSE,
   first_row_bitmap |-> {}]

(* _add_job_to_cores that allocates the row bitmap and sets no bit *)
_add_job_to_cores_no_bits(job_resrcs_ptr, r_ptr) ==
  [r_ptr EXCEPT !.has_bitmap = TRUE]

(* _add_job_to_cores: allocate the row bitmap if needed, OR the job in *)
_add_job_to_cores(job_resrcs_ptr, r_ptr) ==
  [r_ptr EXCEPT
     !.has_bitmap = TRUE,
     !.first_row_bitmap = add_job_to_cores(job_resrcs_ptr, @)]

(* _can_job_fit_in_row that finds room in every row *)
_can_job_fit_in_row_always(job, r_ptr) == TRUE

(* _can_job_fit_in_row: test for conflicting core_bitmap bits *)
_can_job_fit_in_row(job, r_ptr) ==
  IF (r_ptr.num_jobs = 0) \/ ~r_ptr.has_bitmap
  THEN TRUE
  ELSE job_fits_into_cores(job, r_ptr.first_row_bitmap)

(* common_add_job_to_row: OR the job into the row bitmap (cleared first    *)
(* when the row holds no job) and append it to the row's job_list          *)
common_add_job_to_row(id, job, r_ptr) ==
  LET r0 == IF r_ptr.has_bitmap /\ r_ptr.num_jobs = 0
            THEN [r_ptr EXCEPT !.first_row_bitmap = {}]
            ELSE r_ptr
      r1 == _add_job_to_cores(job, r0)
  IN [r1 EXCEPT !.job_list = Append(@, id), !.num_jobs = @ + 1]

(* set bits of a row's bitmap, 0 when the row has none *)
RowSetCount(r) == IF r.has_bitmap THEN bit_set_count(r.first_row_bitmap) ELSE 0

RECURSIVE InsertRowSorted(_, _)
InsertRowSorted(sorted, r) ==
  IF sorted = <<>> THEN <<r>>
  ELSE IF RowSetCount(r) > RowSetCount(Head(sorted))
       THEN <<r>> \o sorted
       ELSE <<Head(sorted)>> \o InsertRowSorted(Tail(sorted), r)

RECURSIVE SortRowsFrom(_, _, _)
SortRowsFrom(row, i, acc) ==
  IF i > Len(row) THEN acc
  ELSE SortRowsFrom(row, i + 1, InsertRowSorted(acc, row[i]))

(* common_sort_part_rows: rows with more set bits first, ties by row index *)
common_sort_part_rows(row) == SortRowsFrom(row, 1, <<>>)

(* the last row the job fits in instead of the first *)
LastFitRow(job, row) ==
  LET fit == {i \in 1 .. Len(row) : _can_job_fit_in_row(job, row[i])}
  IN IF fit = {} THEN 0 ELSE SetMax(fit)

(* index of the first row the job fits in, 0 when it fits in none *)
FirstFitRow(job, row) ==
  LET fit == {i \in 1 .. Len(row) : _can_job_fit_in_row(job, row[i])}
  IN IF fit = {} THEN 0 ELSE SetMin(fit)

(* ------------------------------ row packer ------------------------------ *)
(* _compare_support: 1 when s sorts after s1, else 0 *)
_compare_support(s, s1) ==
  IF (s.jstart > s1.jstart) \/
     (s.jstart = s1.jstart /\ s.ncpus > s1.ncpus)
  THEN 1 ELSE 0

RECURSIVE InsertSupport(_, _)
InsertSupport(sorted, x) ==
  IF sorted = <<>> THEN <<x>>
  ELSE IF _compare_support(Head(sorted), x) > 0
       THEN <<x>> \o sorted
       ELSE <<Head(sorted)>> \o InsertSupport(Tail(sorted), x)

RECURSIVE qsort(_)
(* qsort(ss, ..., _compare_support): the order a merge sort that consults   *)
(* only "compare > 0" produces                                             *)
qsort(ss) ==
  IF ss = <<>> THEN <<>>
  ELSE InsertSupport(qsort(SubSeq(ss, 1, Len(ss) - 1)), ss[Len(ss)])

(* the master job list of the packer: every job of every row, row by row,  *)
(* with its first global core position                                     *)
(* the master job list gathered from the first row only *)
GatherJobs_first_row(row, jt, i) ==
  [j \in 1 .. row[1].num_jobs |->
     LET job == jt[row[1].job_list[j]].job_resrcs
     IN [tmpjobs |-> row[1].job_list[j],
         ncpus |-> job.ncpus,
         jstart |-> cr_get_coremap_offset(bit_ffs(job.node_bitmap))
                    + bit_ffs(job.core_bitmap)]]

RECURSIVE GatherJobs(_, _, _)
GatherJobs(row, jt, i) ==
  IF i > Len(row) THEN <<>>
  ELSE [j \in 1 .. row[i].num_jobs |->
          LET job == jt[row[i].job_list[j]].job_resrcs
          IN [tmpjobs |-> row[i].job_list[j],
              ncpus |-> job.ncpus,
              jstart |-> cr_get_coremap_offset(bit_ffs(job.node_bitmap))
                         + bit_ffs(job.core_bitmap)]]
       \o GatherJobs(row, jt, i + 1)

(* a row with its jobs dropped and its bitmap (if any) cleared *)
ClearRow(r) ==
  [r EXCEPT !.num_jobs = 0, !.job_list = <<>>, !.first_row_bitmap = {}]

(* the row bitmap rebuilt from the row's job_list *)
RECURSIVE RebuildRowFrom(_, _, _)
RebuildRowFrom(r, jt, j) ==
  IF j > r.num_jobs THEN r
  ELSE RebuildRowFrom(_add_job_to_cores(jt[r.job_list[j]].job_resrcs, r),
                      jt, j + 1)

(* the row handed back with the bitmap it had *)
RebuildRow_stale(r, jt) == r

RebuildRow(r, jt) ==
  RebuildRowFrom([r EXCEPT !.first_row_bitmap = {}], jt, 1)

(* the add loop without the re-sort of the rows after every job *)
RECURSIVE PackJobsUnsorted(_, _, _, _)
PackJobsUnsorted(ss, jt, j, acc) ==
  IF j > Len(ss) THEN acc
  ELSE LET job == jt[ss[j].tmpjobs].job_resrcs
           i == FirstFitRow(job, acc.row)
           placed == IF i = 0 THEN acc.row
                     ELSE [acc.row EXCEPT
                             ![i] = common_add_job_to_row(ss[j].tmpjobs, job, @)]
       IN PackJobsUnsorted(ss, jt, j + 1,
                           [row |-> placed,
                            dangling |-> acc.dangling \/ (i = 0)])

(* "add jobs to the rows": each job of the sorted list goes to the first   *)
(* row it fits in, the rows are re-sorted after every job; a job that fits *)
(* no row is left dangling                                                 *)
RECURSIVE PackJobs(_, _, _, _)
PackJobs(ss, jt, j, acc) ==
  IF j > Len(ss) THEN acc
  ELSE LET job == jt[ss[j].tmpjobs].job_resrcs
           i == FirstFitRow(job, acc.row)
           placed == IF i = 0 THEN acc.row
                     ELSE [acc.row EXCEPT
                             ![i] = common_add_job_to_row(ss[j].tmpjobs, job, @)]
       IN PackJobs(ss, jt, j + 1,
                   [row |-> common_sort_part_rows(placed),
                    dangling |-> acc.dangling \/ (i = 0)])

(* the packer's multi-row layout before the dangling test *)
PackedLayout(row, jt) ==
  PackJobs(qsort(GatherJobs(row, jt, 1)), jt, 1,
           [row |-> [i \in 1 .. Len(row) |-> ClearRow(row[i])],
            dangling |-> FALSE])

TotalJobs(row) == SumSeq([i \in 1 .. Len(row) |-> row[i].num_jobs])

(* the rows rebuilt where they are: no job changes its row *)
_build_row_bitmaps_in_place(row, jt, job_ptr) ==
  [i \in 1 .. Len(row) |-> RebuildRow(row[i], jt)]

(* the packer without the test for dangling jobs: the packed layout is     *)
(* kept whatever it holds                                                  *)
_build_row_bitmaps_no_restore(row, jt, job_ptr) ==
  IF Len(row) = 1
  THEN LET this_row == row[1]
       IN IF this_row.num_jobs = 0
          THEN <<[this_row EXCEPT !.first_row_bitmap = {}]>>
          ELSE IF job_ptr # NULL
               THEN <<[this_row EXCEPT
                         !.first_row_bitmap =
                            remove_job_from_cores(jt[job_ptr].job_resrcs, @)]>>
               ELSE <<RebuildRow(this_row, jt)>>
  ELSE IF TotalJobs(row) = 0
       THEN [i \in 1 .. Len(row) |-> [row[i] EXCEPT !.first_row_bitmap = {}]]
       ELSE PackedLayout(row, jt).row

(* _build_row_bitmaps(p_ptr, job_ptr): rows of the partition after the     *)
(* jobs have been re-packed; job_ptr is the job just removed, or NULL      *)
_build_row_bitmaps(row, jt, job_ptr) ==
  IF Len(row) = 1
  THEN LET this_row == row[1]
       IN IF this_row.num_jobs = 0
          THEN <<[this_row EXCEPT !.first_row_bitmap = {}]>>
          ELSE IF job_ptr # NULL
               THEN <<[this_row EXCEPT
                         !.first_row_bitmap =
                            remove_job_from_cores(jt[job_ptr].job_resrcs, @)]>>
               ELSE <<RebuildRow(this_row, jt)>>
  ELSE IF TotalJobs(row) = 0
       THEN [i \in 1 .. Len(row) |-> [row[i] EXCEPT !.first_row_bitmap = {}]]
       ELSE LET orig_row == row
                packed == PackedLayout(row, jt)
            IN IF packed.dangling
               THEN [i \in 1 .. Len(row) |-> RebuildRow(orig_row[i], jt)]
               ELSE packed.row

(* -------------------------------- state --------------------------------- *)
VARIABLES
  select_node_record,    \* per node: real_memory, mem_spec_limit
  select_node_usage,     \* per node: alloc_memory, node_state
  row,                   \* select_part_record->row: the rows of the partition
  job_table,             \* the controller's job records with their JRR
  select_fast_schedule,  \* configuration: FastSchedule
  cr_memory,             \* configuration: memory is a consumable resource (CR_MEMORY)
  last,                  \* the last call made: operation, job, return code
  switch_record_table,   \* configuration: the switches of the topology, in table order
  spec_cores,            \* configuration: the specialized cores of the nodes
  resv,                  \* the last reservation request and what the planner returned
  node_record_table,     \* per node: cpus and threads, configured and found
  last_node_update,      \* the time of the last change of a node's state
  last_set_all,          \* select_p_select_nodeinfo_set_all: static last_set_all
  nodeinfo,              \* per node: the select_nodeinfo of the node
  script                 \* the calls a scripted scenario has made so far

(* what the reservation planner reads and writes *)
resv_vars == <<switch_record_table, spec_cores, resv>>

(* what the node information roll-up reads and writes *)
info_vars == <<node_record_table, last_node_update, last_set_all, nodeinfo>>

vars == <<select_node_record, select_node_usage, row, job_table,
          select_fast_schedule, cr_memory, last, resv_vars, info_vars, script>>

(* what the lifecycle operations read and write *)
State == [usage |-> select_node_usage, row |-> row, jt |-> job_table]

NoResrcs ==
  [node_bitmap |-> {}, nhosts |-> 0, cpus |-> <<>>, memory_allocated |-> <<>>,
   core_bitmap |-> {}, ncpus |-> 0, node_req |-> NODE_CR_AVAILABLE,
   whole_node |-> FALSE]

(* a free job record *)
NoJob ==
  [job_state |-> "none", indf_susp |-> FALSE, mem_calc |-> FALSE,
   node_bitmap |-> {}, total_cpus |-> 0, has_resrcs |-> FALSE,
   job_resrcs |-> NoResrcs]

(* _create_job_resources + the placement result: the JRR of a request on   *)
(* nodes nb taking the local cores local[n] and memory mem[n] of node n    *)
MakeResrcs(nb, local, mem, node_req, whole_node) ==
  LET nl == NodeList(nb)
  IN [node_bitmap |-> nb,
      nhosts |-> Cardinality(nb),
      cpus |-> [i \in 1 .. Len(nl) |-> Cardinality(local[nl[i]])],
      memory_allocated |-> [i \in 1 .. Len(nl) |-> mem[nl[i]]],
      core_bitmap |-> UNION { {PackedOffsetOf(nb, n) + c : c \in local[n]} : n \in nb },
      ncpus |-> SumSeq([i \in 1 .. Len(nl) |-> Cardinality(local[nl[i]])]),
      node_req |-> node_req,
      whole_node |-> whole_node]

(* memory of job at node n (0 when the node is not in its node_bitmap) *)
JobMemAt(job, n) ==
  IF n \in job.node_bitmap
  THEN job.memory_allocated[Rank(job.node_bitmap, n) + 1]
  ELSE 0

(* <<row index, list index>> of the job in the rows, <<0, 0>> if absent *)
FindJob(rw, id) ==
  LET hits == {i \in 1 .. Len(rw) :
                 \E j \in 1 .. rw[i].num_jobs : rw[i].job_list[j] = id}
  IN IF hits = {} THEN <<0, 0>>
     ELSE LET i == SetMin(hits)
          IN <<i, SetMin({j \in 1 .. rw[i].num_jobs : rw[i].job_list[j] = id})>>

(* common_add_job_to_res(job_ptr, action): action 0 adds memory and cores, *)
(* 1 memory only, 2 cores only (resume)                                    *)
common_add_job_to_res(st, id, action) ==
  LET job == st.jt[id].job_resrcs
      usage1 == IF action # 2
                THEN [n \in Nodes |->
                        [st.usage[n] EXCEPT !.alloc_memory = @ + JobMemAt(job, n)]]
                ELSE st.usage
      i == FirstFitRow(job, st.row)
  IN IF ~st.jt[id].has_resrcs
     THEN [st |-> st, rc |-> SLURM_ERROR]
     ELSE IF action = 1
     THEN [st |-> [st EXCEPT !.usage = usage1], rc |-> SLURM_SUCCESS]
     ELSE IF i = 0
     THEN [st |-> [st EXCEPT !.usage = usage1], rc |-> SLURM_ERROR]
     ELSE [st |-> [st EXCEPT
                     !.usage = [n \in Nodes |->
                                  IF n \in job.node_bitmap
                                  THEN [usage1[n] EXCEPT !.node_state = @ + job.node_req]
                                  ELSE usage1[n]],
                     !.row[i] = common_add_job_to_row(id, job, @)],
           rc |-> SLURM_SUCCESS]

(* node_state of a node after a job with node_req left it, not clamped *)
DecNodeState_plain(u, node_req) == [u EXCEPT !.node_state = @ - node_req]

(* node_state of a node after a job with node_req left it, clamped *)
DecNodeState(u, node_req) ==
  IF u.node_state >= node_req
  THEN [u EXCEPT !.node_state = @ - node_req]
  ELSE [u EXCEPT !.node_state = NODE_CR_AVAILABLE]

(* the release of memory forgotten *)
SubMemory_keep(u, mem) == u

(* alloc_memory of a node after mem was released, clamped *)
SubMemory(u, mem) ==
  IF u.alloc_memory < mem
  THEN [u EXCEPT !.alloc_memory = 0]
  ELSE [u EXCEPT !.alloc_memory = @ - mem]

(* the job left in its row's job_list *)
RemoveFromRow_keep(rw, at) == rw

(* the rows with the job at position at = <<row, index>> taken out of its  *)
(* row's job_list                                                          *)
RemoveFromRow(rw, at) ==
  [rw EXCEPT ![at[1]] =
     [@ EXCEPT !.job_list = DropAt(@, at[2]), !.num_jobs = @ - 1]]

(* common_rm_job_res(part, usage, job_ptr, action, job_fini): action 0     *)
(* releases memory and cores, 1 memory only, 2 cores only (suspend)        *)
common_rm_job_res(st, id, action, job_fini) ==
  LET job == st.jt[id].job_resrcs
      usage1 == IF action # 2
                THEN [n \in Nodes |-> SubMemory(st.usage[n], JobMemAt(job, n))]
                ELSE st.usage
      at == FindJob(st.row, id)
      row1 == RemoveFromRow(st.row, at)
  IN IF ~st.jt[id].has_resrcs
     THEN [st |-> st, rc |-> SLURM_ERROR]
     ELSE IF action = 1
     THEN [st |-> [st EXCEPT !.usage = usage1], rc |-> SLURM_SUCCESS]
     ELSE IF at[1] = 0
     THEN [st |-> [st EXCEPT !.usage = usage1], rc |-> SLURM_ERROR]
     ELSE [st |-> [st EXCEPT
                     !.usage = [n \in Nodes |->
                                  IF n \in job.node_bitmap
                                  THEN DecNodeState(usage1[n], job.node_req)
                                  ELSE usage1[n]],
                     !.row = _build_row_bitmaps(row1, st.jt, id)],
           rc |-> SLURM_SUCCESS]

IS_JOB_SUSPENDED(job_ptr) == job_ptr.job_state = "suspended"
IS_JOB_RUNNING(job_ptr) == job_ptr.job_state = "running"

(* --------------------------- _rm_job_from_one_node ---------------------- *)
(* _rm_job_from_one_node(job_ptr, node_ptr): the job gives up one node     *)
_rm_job_from_one_node(st, id, node_inx) ==
  LET job_ptr == st.jt[id]
      job == job_ptr.job_resrcs
      hit == node_inx \in job.node_bitmap
      n == Rank(job.node_bitmap, node_inx)
      again == hit /\ job.cpus[n + 1] = 0
      usage1 == IF hit
                THEN [st.usage EXCEPT ![node_inx] =
                        SubMemory(@, job.memory_allocated[n + 1])]
                ELSE st.usage
      job1 == IF hit THEN extract_job_resources_node(job, n) ELSE job
      jt1 == [st.jt EXCEPT ![id].job_resrcs = job1]
      at == FindJob(st.row, id)
  IN IF ~job_ptr.has_resrcs
     THEN [st |-> st, rc |-> SLURM_ERROR]
     ELSE IF again
     THEN [st |-> st, rc |-> SLURM_SUCCESS]
     ELSE IF IS_JOB_SUSPENDED(job_ptr)
     THEN [st |-> [st EXCEPT !.usage = usage1, !.jt = jt1],
           rc |-> SLURM_SUCCESS]
     ELSE IF at[1] = 0
     THEN [st |-> [st EXCEPT !.usage = usage1, !.jt = jt1],
           rc |-> SLURM_ERROR]
     ELSE [st |-> [usage |-> [usage1 EXCEPT ![node_inx] =
                                DecNodeState(@, job.node_req)],
                   row |-> _build_row_bitmaps(st.row, jt1, NULL),
                   jt |-> jt1],
           rc |-> SLURM_SUCCESS]

(* ------------------------------ _job_expand ----------------------------- *)
Uint16(x) == x % 65536

(* job_resources_bits_copy that copies no bit *)
job_resources_bits_copy_none(new, new_off, from, from_off) == new

(* job_resources_bits_copy: OR the core bits of the node at rank from_off  *)
(* of from into the node at rank new_off of new                            *)
job_resources_bits_copy(new, new_off, from, from_off) ==
  LET new_node == NodeList(new.node_bitmap)[new_off + 1]
      from_node == NodeList(from.node_bitmap)[from_off + 1]
      new_bit_inx == PackedOffsetOf(new.node_bitmap, new_node)
      from_bit_inx == PackedOffsetOf(from.node_bitmap, from_node)
      cnt == IF cr_node_num_cores[new_node] < cr_node_num_cores[from_node]
             THEN cr_node_num_cores[new_node]
             ELSE cr_node_num_cores[from_node]
  IN [new EXCEPT !.core_bitmap =
        @ \cup {new_bit_inx + i : i \in {k \in 0 .. (cnt - 1) :
                                           (from_bit_inx + k) \in from.core_bitmap}}]

(* one pass of the merge loop for node index i; acc carries the three     *)
(* per-node offsets, the new record, from's cpus and to's total_cpus      *)
ExpandStep(acc, i, from_job_ptr, to_job_ptr) ==
  LET from == from_job_ptr.job_resrcs
      to == to_job_ptr.job_resrcs
      in_from == i \in from.node_bitmap
      in_to == i \in to.node_bitmap
      from_node_used == in_from /\ i \in from_job_ptr.node_bitmap
      to_node_used == in_to /\ i \in to_job_ptr.node_bitmap
      fo == IF in_from THEN acc.from_node_offset + 1 ELSE acc.from_node_offset
      too == IF in_to THEN acc.to_node_offset + 1 ELSE acc.to_node_offset
      no == acc.new_node_offset + 1
      new1 == IF from_node_used
              THEN job_resources_bits_copy(
                     [acc.new EXCEPT
                        !.cpus[no + 1] = from.cpus[fo + 1],
                        !.memory_allocated[no + 1] = from.memory_allocated[fo + 1]],
                     no, from, fo)
              ELSE acc.new
      new2 == IF to_node_used
              THEN job_resources_bits_copy(
                     [new1 EXCEPT
                        !.cpus[no + 1] = Uint16(@ + to.cpus[too + 1]),
                        !.memory_allocated[no + 1] =
                           @ + to.memory_allocated[too + 1]],
                     no, to, too)
              ELSE new1
      from_core_cnt == count_job_resources_node(from, fo)
      to_core_cnt == count_job_resources_node(to, too)
      new_core_cnt == count_job_resources_node(new2, no)
      new3 == IF from_node_used /\ to_node_used
                 /\ (from_core_cnt + to_core_cnt) # new_core_cnt
              THEN [new2 EXCEPT !.cpus[no + 1] =
                      Uint16(@ * new_core_cnt) \div (from_core_cnt + to_core_cnt)]
              ELSE new2
  IN IF ~from_node_used /\ ~to_node_used
     THEN [acc EXCEPT !.from_node_offset = fo, !.to_node_offset = too]
     ELSE [from_node_offset |-> fo,
           to_node_offset |-> too,
           new_node_offset |-> no,
           new |-> new3,
           from_cpus |-> IF from_node_used
                         THEN [acc.from_cpus EXCEPT ![fo + 1] = 0]
                         ELSE acc.from_cpus,
           total_cpus |-> acc.total_cpus +
                          (IF to.whole_node THEN select_node_record[i].cpus
                           ELSE new3.cpus[no + 1])]

RECURSIVE ExpandLoop(_, _, _, _, _)
ExpandLoop(acc, i, last_bit, from_job_ptr, to_job_ptr) ==
  IF i > last_bit THEN acc
  ELSE ExpandLoop(ExpandStep(acc, i, from_job_ptr, to_job_ptr), i + 1, last_bit,
                  from_job_ptr, to_job_ptr)

(* _job_expand that releases both jobs before it looks at them *)
_job_expand_release_first(st, from_id, to_id) ==
  LET st1 == common_rm_job_res(st, from_id, 0, TRUE).st
      st2 == common_rm_job_res(st1, to_id, 0, TRUE).st
  IN [st |-> st2, rc |-> SLURM_ERROR]

(* _job_expand(from_job_ptr, to_job_ptr): move all resources of from to to *)
_job_expand(st, from_id, to_id) ==
  LET st1 == common_rm_job_res(st, from_id, 0, TRUE).st
      st2 == common_rm_job_res(st1, to_id, 0, TRUE).st
      from_job_ptr == st.jt[from_id]
      to_job_ptr == st.jt[to_id]
      from == from_job_ptr.job_resrcs
      to == to_job_ptr.job_resrcs
      tmp_bitmap == (to.node_bitmap \cup from.node_bitmap) \cap
                    (to_job_ptr.node_bitmap \cup from_job_ptr.node_bitmap)
      node_cnt == bit_set_count(tmp_bitmap)
      new0 == [node_bitmap |-> tmp_bitmap,
               nhosts |-> node_cnt,
               cpus |-> [k \in 1 .. node_cnt |-> 0],
               memory_allocated |-> [k \in 1 .. node_cnt |-> 0],
               core_bitmap |-> {},
               ncpus |-> from.ncpus + to.ncpus,
               node_req |-> to.node_req,
               whole_node |-> to.whole_node]
      first_bit == IF bit_ffs(from.node_bitmap) < bit_ffs(to.node_bitmap)
                   THEN bit_ffs(from.node_bitmap) ELSE bit_ffs(to.node_bitmap)
      last_bit == IF bit_fls(from.node_bitmap) > bit_fls(to.node_bitmap)
                  THEN bit_fls(from.node_bitmap) ELSE bit_fls(to.node_bitmap)
      fin == ExpandLoop([from_node_offset |-> -1, to_node_offset |-> -1,
                         new_node_offset |-> -1, new |-> new0,
                         from_cpus |-> from.cpus, total_cpus |-> 0],
                        first_bit, last_bit, from_job_ptr, to_job_ptr)
      jt3 == [st2.jt EXCEPT
                ![to_id] = [@ EXCEPT
                              !.job_resrcs = fin.new,
                              !.total_cpus = fin.total_cpus,
                              !.node_bitmap = @ \cup from_job_ptr.node_bitmap],
                ![from_id] = [@ EXCEPT
                                !.total_cpus = 0,
                                !.node_bitmap = {},
                                !.job_resrcs = [@ EXCEPT
                                                  !.cpus = fin.from_cpus,
                                                  !.ncpus = 0,
                                                  !.nhosts = 0,
                                                  !.node_bitmap = {}]]]
  IN IF from_id = to_id
     THEN [st |-> st, rc |-> SLURM_ERROR]
     ELSE IF ~from_job_ptr.has_resrcs \/ ~to_job_ptr.has_resrcs
     THEN [st |-> st, rc |-> SLURM_ERROR]
     ELSE [st |-> common_add_job_to_res([st2 EXCEPT !.jt = jt3], to_id, 0).st,
           rc |-> SLURM_SUCCESS]

(* ------------------------ memory confirm / node config ------------------ *)
(* select_p_job_mem_confirm(job_ptr): a job that asked for all the memory  *)
(* of its nodes gets what the nodes really have                            *)
select_p_job_mem_confirm(st, id) ==
  LET job_ptr == st.jt[id]
      job == job_ptr.job_resrcs
      avail_mem(i) == select_node_record[i].real_memory -
                      select_node_record[i].mem_spec_limit
      nl == NodeList(job.node_bitmap)
  IN IF ~job_ptr.mem_calc \/ select_fast_schedule # 0
     THEN [st |-> st, rc |-> SLURM_SUCCESS]
     ELSE IF ~job_ptr.has_resrcs
     THEN [st |-> st, rc |-> SLURM_ERROR]
     ELSE [st |-> [st EXCEPT
                     !.jt[id].job_resrcs.memory_allocated =
                        [k \in 1 .. Len(nl) |-> avail_mem(nl[k])],
                     !.usage = [i \in Nodes |->
                                  IF i \in job.node_bitmap
                                  THEN [@[i] EXCEPT !.alloc_memory = avail_mem(i)]
                                  ELSE @[i]]],
           rc |-> SLURM_SUCCESS]

(* select_p_update_node_config(index): take over the memory size the node  *)
(* registered with (node_ptr->real_memory, node_ptr->mem_spec_limit)       *)
select_p_update_node_config(rec, index, real_memory, mem_spec_limit) ==
  IF index >= NodeCnt
  THEN [rec |-> rec, rc |-> SLURM_ERROR]
  ELSE IF select_fast_schedule # 0
  THEN [rec |-> rec, rc |-> SLURM_SUCCESS]
  ELSE [rec |-> [rec EXCEPT ![index].real_memory = real_memory,
                            ![index].mem_spec_limit = mem_spec_limit],
        rc |-> SLURM_SUCCESS]

(* select_p_job_suspend that releases the cores for every kind of suspend *)
select_p_job_suspend_always(st, id, indf_susp) ==
  common_rm_job_res(st, id, 2, FALSE)

(* select_p_job_suspend(job_ptr, indf_susp) *)
select_p_job_suspend(st, id, indf_susp) ==
  IF ~indf_susp
  THEN [st |-> st, rc |-> SLURM_SUCCESS]
  ELSE common_rm_job_res(st, id, 2, FALSE)

(* select_p_job_resume(job_ptr, indf_susp) *)
select_p_job_resume(st, id, indf_susp) ==
  IF ~indf_susp
  THEN [st |-> st, rc |-> SLURM_SUCCESS]
  ELSE common_add_job_to_res(st, id, 2)

(* select_p_job_fini(job_ptr) *)
select_p_job_fini(st, id) ==
  [st |-> common_rm_job_res(st, id, 0, TRUE).st, rc |-> SLURM_SUCCESS]

(* select_p_select_nodeinfo_set(job_ptr): a started job enters the tables  *)
select_p_select_nodeinfo_set(st, id) ==
  IF IS_JOB_RUNNING(st.jt[id])
  THEN common_add_job_to_res(st, id, 0)
  ELSE IF IS_JOB_SUSPENDED(st.jt[id])
  THEN IF st.jt[id].indf_susp   \* priority == 0: suspended by the administrator
       THEN common_add_job_to_res(st, id, 1)
       ELSE common_add_job_to_res(st, id, 0)
  ELSE [st |-> st, rc |-> SLURM_SUCCESS]

(* select_p_job_resized(job_ptr, node_ptr) *)
select_p_job_resized(st, id, node_inx) ==
  [st |-> _rm_job_from_one_node(st, id, node_inx).st, rc |-> SLURM_SUCCESS]

(* select_p_job_expand(from_job_ptr, to_job_ptr) *)
select_p_job_expand(st, from_id, to_id) == _job_expand(st, from_id, to_id)

(* ------------------------- the controller's requests -------------------- *)
(* What job_test hands over for a job: nodes, the local cores taken on     *)
(* each node, memory per node, flags.                                      *)
Req(nb, local, mem, mem_calc, node_req, whole_node) ==
  [nodes |-> nb, local |-> local, mem |-> mem, mem_calc |-> mem_calc,
   node_req |-> node_req, whole_node |-> whole_node]

LastCore == CoresPerNode - 1

(* the workload: the requests of the jobs of the job table, job by job    *)
Requests ==
  << Req({0, 1}, (0 :> {LastCore}) @@ (1 :> {0}),
         (0 :> 1) @@ (1 :> 0), FALSE, NODE_CR_ONE_ROW, FALSE),
     Req({0}, (0 :> {LastCore}), (0 :> 1), TRUE, NODE_CR_AVAILABLE, FALSE),
     Req({0, 1}, (0 :> {0}) @@ (1 :> {LastCore}),
         (0 :> 1) @@ (1 :> 1), FALSE, NODE_CR_AVAILABLE, FALSE),
     Req({0, 1}, (0 :> {0}) @@ (1 :> {0}),
         (0 :> 0) @@ (1 :> 1), FALSE, NODE_CR_AVAILABLE, FALSE),
     Req({1}, (1 :> 0 .. LastCore), (1 :> 1), FALSE, NODE_CR_ONE_ROW, TRUE),
     Req({1}, (1 :> {LastCore}), (1 :> 1), FALSE, NODE_CR_AVAILABLE, FALSE) >>

RequestOf(id) == Requests[((id - 1) % Len(Requests)) + 1]

AvailMem(rec, n) == rec[n].real_memory - rec[n].mem_spec_limit

(* the JRR the placement builds for a request: a job that asked for all    *)
(* the memory of its nodes (NODE_MEM_CALC) is given real - spec            *)
PlaceJob(req) ==
  [job_state |-> "running", indf_susp |-> FALSE, mem_calc |-> req.mem_calc,
   node_bitmap |-> req.nodes,
   total_cpus |-> SumSeq([i \in 1 .. Len(NodeList(req.nodes)) |->
                            Cardinality(req.local[NodeList(req.nodes)[i]])]),
   has_resrcs |-> TRUE,
   job_resrcs |->
     MakeResrcs(req.nodes, req.local,
                [n \in req.nodes |->
                   IF ~cr_memory THEN 0
                   ELSE IF req.mem_calc THEN AvailMem(select_node_record, n)
                   ELSE req.mem[n]],
                req.node_req, req.whole_node)]

(* ------------------------------- actions -------------------------------- *)
Called(op, id, other, rc) == [op |-> op, rc |-> rc]

Commit(r) ==
  /\ select_node_usage' = r.st.usage
  /\ row' = r.st.row
  /\ job_table' = r.st.jt

FreeIds == {j \in JobIds : job_table[j].job_state = "none"}
LiveIds == {j \in JobIds : job_table[j].job_state # "none"}

(* job_test can select the job for start: its memory fits on every node   *)
(* and its cores are free in some row                                      *)
CanStart(id) ==
  LET req == RequestOf(id)
      job_ptr == PlaceJob(req)
  IN /\ job_table[id].job_state = "none"
     /\ \A n \in req.nodes :
          /\ select_node_usage[n].alloc_memory + JobMemAt(job_ptr.job_resrcs, n)
               <= AvailMem(select_node_record, n)
          /\ select_node_usage[n].node_state + req.node_req <= MaxNodeState
     /\ FirstFitRow(job_ptr.job_resrcs, row) # 0

(* the state with the job record job_test builds for the job *)
Placed(id) == [State EXCEPT !.jt[id] = PlaceJob(RequestOf(id))]

(* a job selected by job_test starts *)
AddJob(cap) ==
  \E id \in FreeIds :
    /\ id <= cap
    /\ CanStart(id)
    /\ LET r == select_p_select_nodeinfo_set(Placed(id), id)
       IN /\ Commit(r)
          /\ last' = Called("add", id, 0, r.rc)
    /\ UNCHANGED <<select_node_record, select_fast_schedule, cr_memory, resv_vars,
                   info_vars, script>>

(* a job ends: its record is released *)
RmJob ==
  \E id \in LiveIds :
    LET r == select_p_job_fini(State, id)
    IN /\ select_node_usage' = r.st.usage
       /\ row' = r.st.row
       /\ job_table' = [r.st.jt EXCEPT ![id] = NoJob]
       /\ last' = Called("rm", id, 0, r.rc)
       /\ UNCHANGED <<select_node_record, select_fast_schedule, cr_memory, resv_vars,
                   info_vars, script>>

(* a running job is suspended, by the administrator (indf_susp) or by the  *)
(* gang scheduler (not indf_susp)                                          *)
Suspend ==
  \E id \in LiveIds, indf_susp \in BOOLEAN :
    /\ IS_JOB_RUNNING(job_table[id])
    /\ job_table[id].job_resrcs.nhosts > 0
    /\ LET r == select_p_job_suspend(State, id, indf_susp)
       IN /\ select_node_usage' = r.st.usage
          /\ row' = r.st.row
          /\ job_table' = [r.st.jt EXCEPT ![id].job_state = "suspended",
                                          ![id].indf_susp = indf_susp]
          /\ last' = Called("suspend", id, IF indf_susp THEN 1 ELSE 0, r.rc)
    /\ UNCHANGED <<select_node_record, select_fast_schedule, cr_memory, resv_vars,
                   info_vars, script>>

(* a suspended job is resumed the way it was suspended *)
Resume ==
  \E id \in LiveIds :
    /\ IS_JOB_SUSPENDED(job_table[id])
    /\ LET indf_susp == job_table[id].indf_susp
           r == select_p_job_resume(State, id, indf_susp)
       IN /\ select_node_usage' = r.st.usage
          /\ row' = r.st.row
          /\ job_table' = [r.st.jt EXCEPT ![id].job_state = "running",
                                          ![id].indf_susp = FALSE]
          /\ last' = Called("resume", id, IF indf_susp THEN 1 ELSE 0, r.rc)
    /\ UNCHANGED <<select_node_record, select_fast_schedule, cr_memory, resv_vars,
                   info_vars, script>>

(* a job shrinks by one node; the controller never takes the last node of  *)
(* a job this way, and drops the node from the job's own node_bitmap       *)
RmOneNode ==
  \E id \in LiveIds, node_inx \in Nodes :
    /\ (node_inx \in job_table[id].job_resrcs.node_bitmap)
         => job_table[id].job_resrcs.nhosts > 1
    /\ LET r == select_p_job_resized(State, id, node_inx)
           rc == _rm_job_from_one_node(State, id, node_inx).rc
       IN /\ select_node_usage' = r.st.usage
          /\ row' = r.st.row
          /\ job_table' = [r.st.jt EXCEPT ![id].node_bitmap = @ \ {node_inx}]
          /\ last' = Called("rm_one_node", id, node_inx, rc)
    /\ UNCHANGED <<select_node_record, select_fast_schedule, cr_memory, resv_vars,
                   info_vars, script>>

(* one job hands all its resources to another; a job never holds more    *)
(* than MaxCpus processors                                                *)
Expand ==
  \E from_id \in LiveIds, to_id \in LiveIds :
    /\ IS_JOB_RUNNING(job_table[from_id])
    /\ IS_JOB_RUNNING(job_table[to_id])
    /\ job_table[from_id].job_resrcs.nhosts > 0
    /\ job_table[to_id].job_resrcs.nhosts > 0
    /\ job_table[from_id].job_resrcs.ncpus + job_table[to_id].job_resrcs.ncpus
         <= MaxCpus
    /\ LET r == select_p_job_expand(State, from_id, to_id)
       IN /\ Commit(r)
          /\ last' = Called("expand", to_id, from_id, r.rc)
    /\ UNCHANGED <<select_node_record, select_fast_schedule, cr_memory, resv_vars,
                   info_vars, script>>

MemConfirm ==
  \E id \in LiveIds :
    /\ job_table[id].job_resrcs.nhosts > 0
    /\ LET r == select_p_job_mem_confirm(State, id)
       IN /\ Commit(r)
          /\ last' = Called("mem_confirm", id, 0, r.rc)
    /\ UNCHANGED <<select_node_record, select_fast_schedule, cr_memory, resv_vars,
                   info_vars, script>>

(* a node registers with its real memory size *)
UpdateNodeConfig ==
  \E index \in Nodes, real_memory \in {RealMem - 1, RealMem} :
    LET r == select_p_update_node_config(select_node_record, index,
                                         real_memory, MemSpecLimit)
    IN /\ select_node_record' = r.rec
       /\ last' = Called("update_node_config", 0, index, r.rc)
       /\ UNCHANGED <<select_node_usage, row, job_table, select_fast_schedule, cr_memory, resv_vars,
                   info_vars, script>>

(* no reservation was requested yet *)
NoResv ==
  [op |-> "none",
   in |-> [first_cores |-> FALSE, core_cnt |-> [has |-> FALSE, cnt |-> <<>>],
           node_cnt |-> 0, avail_bitmap |-> {},
           core_bitmap |-> [has |-> FALSE, bits |-> {}]],
   out |-> [nodes |-> [has |-> FALSE, bits |-> {}],
            core_bitmap |-> [has |-> FALSE, bits |-> {}],
            avail_bitmap |-> {}]]

IdleTables ==
  /\ select_node_record =
       [n \in Nodes |-> [real_memory |-> RealMem, mem_spec_limit |-> MemSpecLimit,
                         cpus |-> cr_node_num_cores[n]]]
  /\ select_node_usage =
       [n \in Nodes |-> [alloc_memory |-> 0, node_state |-> NODE_CR_AVAILABLE]]
  /\ job_table = [j \in JobIds |-> NoJob]
  /\ last = Called("init", 0, 0, SLURM_SUCCESS)
  /\ script = <<>>

(* node_record_table of nodes with the given threads per core, configured *)
(* and found                                                             *)
NodeRecords(config_threads, threads) ==
  [n \in Nodes |->
     [config_ptr |-> [cpus |-> cr_node_num_cores[n] * config_threads,
                      threads |-> config_threads],
      cpus |-> cr_node_num_cores[n] * threads,
      threads |-> threads]]

(* select_p_select_nodeinfo_alloc, lines 1155-1162: a zeroed select_nodeinfo *)
select_p_select_nodeinfo_alloc == [alloc_cpus |-> 0, alloc_memory |-> 0]

(* no roll-up of the node information was made yet *)
IdleInfo ==
  /\ last_node_update = 1
  /\ last_set_all = 0
  /\ nodeinfo = [n \in Nodes |-> select_p_select_nodeinfo_alloc]

(* a cluster without topology and without specialized cores *)
Idle ==
  /\ IdleTables
  /\ switch_record_table = <<>>
  /\ spec_cores = {}
  /\ resv = NoResv
  /\ node_record_table = NodeRecords(1, 1)
  /\ IdleInfo

(* cores are the only consumable resource: partitions of 1 .. MaxRows rows *)
InitRows ==
  /\ Idle
  /\ cr_memory = FALSE
  /\ select_fast_schedule = 1
  /\ \E num_rows \in 1 .. MaxRows : row = [i \in 1 .. num_rows |-> EmptyRow]

(* jobs start, shrink and end *)
NextPack ==
  \/ AddJob(MaxJobs)
  \/ RmJob
  \/ RmOneNode

SpecPack == InitRows /\ [][NextPack]_vars

(* the whole life cycle of a few jobs *)
NextLife ==
  \/ AddJob(LifeJobs)
  \/ RmJob
  \/ Suspend
  \/ Resume
  \/ RmOneNode
  \/ Expand

SpecLife == InitRows /\ [][NextLife]_vars

(* memory is a consumable resource too *)
InitMem ==
  /\ Idle
  /\ cr_memory = TRUE
  /\ select_fast_schedule \in {0, 1}
  /\ \E num_rows \in 1 .. 2 : row = [i \in 1 .. num_rows |-> EmptyRow]

NextMem ==
  \/ AddJob(MemJobs)
  \/ RmJob
  \/ RmOneNode
  \/ MemConfirm
  \/ UpdateNodeConfig

SpecMem == InitMem /\ [][NextMem]_vars

(* jobs that hold memory are suspended, resumed, shrunk and merged *)
InitMerge ==
  /\ Idle
  /\ cr_memory = TRUE
  /\ select_fast_schedule = 1
  /\ \E num_rows \in 1 .. 2 : row = [i \in 1 .. num_rows |-> EmptyRow]

(* the jobs of the merge workload: a one-core job, a two-node job and a    *)
(* whole-node job                                                          *)
MergeJobs == {2, 4, 5}

(* a job of the set ids selected by job_test starts *)
AddJobIn(ids) ==
  \E id \in FreeIds \cap ids :
    /\ CanStart(id)
    /\ LET r == select_p_select_nodeinfo_set(Placed(id), id)
       IN /\ Commit(r)
          /\ last' = Called("add", id, 0, r.rc)
    /\ UNCHANGED <<select_node_record, select_fast_schedule, cr_memory, resv_vars,
                   info_vars, script>>

NextMerge ==
  \/ AddJobIn(MergeJobs)
  \/ RmJob
  \/ RmOneNode
  \/ Expand

SpecMerge == InitMerge /\ [][NextMerge]_vars

(* jobs that hold memory are suspended, resumed and shrunk *)
NextSusp ==
  \/ AddJobIn(MergeJobs)
  \/ RmJob
  \/ Suspend
  \/ Resume
  \/ RmOneNode

SpecSusp == InitMerge /\ [][NextSusp]_vars

(* ======================= the reservation planner ======================= *)
(* a bitmap pointer: NULL, or a bitmap with the bits of a set *)
NullMap == [has |-> FALSE, bits |-> {}]
Map(b) == [has |-> TRUE, bits |-> b]

(* core_cnt[i] of a zero-terminated array of core counts (i counts from 0) *)
CoreCntAt(core_cnt, i) == IF i < Len(core_cnt.cnt) THEN core_cnt.cnt[i + 1] ELSE 0

(* make_core_bitmap(node_bitmap, NO_VAL16): the cores of the nodes of
   node_bitmap that are not specialized *)
make_core_bitmap(node_bitmap) ==
  (UNION {NodeCoreRange(n) : n \in node_bitmap}) \ spec_cores

(* _spec_core_filter: the complement of make_core_bitmap is OR-ed into
   *core_bitmap, and becomes *core_bitmap when that was NULL *)
_spec_core_filter(node_bitmap, core_bitmap) ==
  LET spec_core_map == Cores \ make_core_bitmap(node_bitmap)
  IN IF core_bitmap.has THEN Map(core_bitmap.bits \cup spec_core_map)
     ELSE Map(spec_core_map)

(* _make_core_bitmap_filtered: every core of the nodes of node_map when
   filter is set, no core otherwise *)
_make_core_bitmap_filtered(node_map, filter) ==
  IF filter = 0 THEN {}
  ELSE UNION {NodeCoreRange(n) : n \in node_map}

(* the cores of a node counted as taken without one being set *)
SeqTakeCores_sets_none(s, i, coff, local_cores, tmpcore, cores_per_node) ==
  [s EXCEPT !.total_core_cnt = 0, !.cores_in_node = 1]

(* _sequential_pick, lines 1641-1653: the cores taken on one node.
   s = [core_bitmap, total_core_cnt, cores_in_node, extra_cores_needed].
   extra_cores_needed is a uint32_t: a value -k stands for the wrapped value
   2^32 - k, which is what a decrement below zero leaves and is not zero *)
RECURSIVE SeqTakeCores(_, _, _, _, _, _)
SeqTakeCores(s, i, coff, local_cores, tmpcore, cores_per_node) ==
  IF i >= local_cores THEN s
  ELSE IF (coff + i) \notin tmpcore
  THEN SeqTakeCores(s, i + 1, coff, local_cores, tmpcore, cores_per_node)
  ELSE
    LET cin == s.cores_in_node + 1
        total == s.total_core_cnt - 1
        extra == IF cin > cores_per_node
                 THEN s.extra_cores_needed - 1
                 ELSE s.extra_cores_needed
        s2 == [core_bitmap |-> s.core_bitmap \cup {coff + i},
               total_core_cnt |-> total,
               cores_in_node |-> cin,
               extra_cores_needed |-> extra]
    IN IF total = 0 \/ (extra = 0 /\ cin >= cores_per_node)
       THEN s2
       ELSE SeqTakeCores(s2, i + 1, coff, local_cores, tmpcore, cores_per_node)

(* _sequential_pick, lines 1594-1664: the loop over the available nodes *)
RECURSIVE SeqPartialLoop(_, _, _, _)
SeqPartialLoop(s, node_cnt, core_cnt, tmpcore) ==
  IF s.total_core_cnt = 0 THEN s
  ELSE
    LET cores_per_node == IF node_cnt = 0
                          THEN CoreCntAt(core_cnt, s.node_list_inx)
                          ELSE s.cores_per_node
        inx == bit_ffs(s.avail_bitmap)
    IN IF node_cnt = 0 /\ cores_per_node = 0 THEN s
       ELSE IF inx < 0 THEN [s EXCEPT !.cores_per_node = cores_per_node]
       ELSE
         LET coff == cr_get_coremap_offset(inx)
             local_cores == cr_get_coremap_offset(inx + 1) - coff
             s1 == [s EXCEPT !.cores_per_node = cores_per_node,
                             !.avail_bitmap = @ \ {inx}]
             free == Cardinality(tmpcore \cap NodeCoreRange(inx))
         IN IF local_cores < cores_per_node \/ free < cores_per_node
            THEN SeqPartialLoop(s1, node_cnt, core_cnt, tmpcore)
            ELSE
              LET r == SeqTakeCores(
                         [core_bitmap |-> s.core_bitmap,
                          total_core_cnt |-> s.total_core_cnt,
                          cores_in_node |-> 0,
                          extra_cores_needed |-> s.extra_cores_needed],
                         0, coff, local_cores, tmpcore, cores_per_node)
              IN SeqPartialLoop(
                   [s1 EXCEPT !.core_bitmap = r.core_bitmap,
                              !.total_core_cnt = r.total_core_cnt,
                              !.extra_cores_needed = r.extra_cores_needed,
                              !.sp_avail_bitmap =
                                 IF r.cores_in_node > 0 THEN @ \cup {inx} ELSE @,
                              !.node_list_inx = @ + 1],
                   node_cnt, core_cnt, tmpcore)

(* whole nodes counted as found without one being taken *)
SeqFullLoop_takes_none(s) == [s EXCEPT !.node_cnt = 0]

(* _sequential_pick, lines 1677-1690: whole nodes, lowest index first *)
RECURSIVE SeqFullLoop(_)
SeqFullLoop(s) ==
  IF s.node_cnt = 0 \/ s.avail_bitmap = {} THEN s
  ELSE LET inx == bit_ffs(s.avail_bitmap)
       IN SeqFullLoop([node_cnt |-> s.node_cnt - 1,
                       avail_bitmap |-> s.avail_bitmap \ {inx},
                       sp_avail_bitmap |-> s.sp_avail_bitmap \cup {inx}])

(* the sum of core_cnt[i] for i < num_nodes, up to the terminator *)
SeqListTotal(core_cnt, num_nodes) ==
  SumUpTo(core_cnt.cnt, IF num_nodes < Len(core_cnt.cnt)
                        THEN num_nodes ELSE Len(core_cnt.cnt))

(* _sequential_pick: the result is [nodes, core_bitmap, avail_bitmap],
   the bitmap returned and what is left in the two in/out bitmaps *)
_sequential_pick(avail_bitmap, node_cnt, core_cnt, core_bitmap) ==
  IF core_cnt.has
  THEN
    LET total == IF node_cnt > 0 THEN CoreCntAt(core_cnt, 0)
                 ELSE SeqListTotal(core_cnt, Cardinality(avail_bitmap))
        cpn == IF node_cnt > 0 THEN CoreCntAt(core_cnt, 0) \div node_cnt ELSE 0
        extra == IF node_cnt > 0 THEN total - cpn * node_cnt ELSE 0
        filtered == _spec_core_filter(avail_bitmap, core_bitmap)
        tmpcore == Cores \ filtered.bits
        r == SeqPartialLoop([avail_bitmap |-> avail_bitmap,
                             total_core_cnt |-> total,
                             cores_per_node |-> cpn,
                             extra_cores_needed |-> extra,
                             node_list_inx |-> 0,
                             core_bitmap |-> {},
                             sp_avail_bitmap |-> {}],
                            node_cnt, core_cnt, tmpcore)
    IN [nodes |-> IF r.total_core_cnt # 0 THEN NullMap ELSE Map(r.sp_avail_bitmap),
        core_bitmap |-> Map(r.core_bitmap),
        avail_bitmap |-> r.avail_bitmap]
  ELSE
    LET r == SeqFullLoop([node_cnt |-> node_cnt,
                          avail_bitmap |-> avail_bitmap,
                          sp_avail_bitmap |-> {}])
    IN [nodes |-> IF r.node_cnt # 0 THEN NullMap ELSE Map(r.sp_avail_bitmap),
        core_bitmap |-> core_bitmap,
        avail_bitmap |-> r.avail_bitmap]

(* the leading cores of a node set whether they are free or not *)
FirstTakeCores_any(bits, jnx, coff, local_cores, tmpcore) ==
  [core_bitmap |-> bits \cup {coff + j : j \in 0 .. (local_cores - 1)},
   jnx |-> local_cores]

(* _pick_first_cores, lines 1739-1743: the leading cores of a node are set
   until one of them is not free; the result is [core_bitmap, jnx] *)
RECURSIVE FirstTakeCores(_, _, _, _, _)
FirstTakeCores(bits, jnx, coff, local_cores, tmpcore) ==
  IF jnx >= local_cores \/ (coff + jnx) \notin tmpcore
  THEN [core_bitmap |-> bits, jnx |-> jnx]
  ELSE FirstTakeCores(bits \cup {coff + jnx}, jnx + 1, coff, local_cores, tmpcore)

(* _pick_first_cores, lines 1729-1753: the loop over first_node .. last_node *)
RECURSIVE FirstLoop(_, _, _, _)
FirstLoop(s, inx, last_node, core_cnt) ==
  IF inx > last_node THEN s
  ELSE
    LET coff == cr_get_coremap_offset(inx)
        node_cores == cr_get_coremap_offset(inx + 1) - coff
        want == CoreCntAt(core_cnt, s.node_offset)
        local_cores == IF node_cores < want THEN -1 ELSE want
        t == FirstTakeCores(s.core_bitmap, 0, coff, local_cores, s.tmpcore)
        s1 == [s EXCEPT !.avail_bitmap = @ \ {inx},
                        !.core_bitmap = t.core_bitmap]
    IN IF t.jnx < want
       THEN FirstLoop(s1, inx + 1, last_node, core_cnt)
       ELSE
         LET s2 == [s1 EXCEPT
                      !.tmpcore = @ \ {coff + j : j \in want .. (node_cores - 1)},
                      !.sp_avail_bitmap = @ \cup {inx},
                      !.node_offset = @ + 1]
         IN IF CoreCntAt(core_cnt, s2.node_offset) = 0 THEN s2
            ELSE FirstLoop(s2, inx + 1, last_node, core_cnt)

(* _pick_first_cores: node_cnt is a parameter the function never reads *)
_pick_first_cores(avail_bitmap, node_cnt, core_cnt, core_bitmap) ==
  IF ~core_cnt.has \/ CoreCntAt(core_cnt, 0) = 0
  THEN [nodes |-> NullMap, core_bitmap |-> core_bitmap, avail_bitmap |-> avail_bitmap]
  ELSE
    LET filtered == _spec_core_filter(avail_bitmap, core_bitmap)
        first_node == bit_ffs(avail_bitmap)
        last_node == IF first_node >= 0 THEN bit_fls(avail_bitmap) ELSE first_node - 1
        r == FirstLoop([avail_bitmap |-> avail_bitmap,
                        tmpcore |-> Cores \ filtered.bits,
                        core_bitmap |-> {},
                        sp_avail_bitmap |-> {},
                        node_offset |-> 0],
                       first_node, last_node, core_cnt)
    IN [nodes |-> IF CoreCntAt(core_cnt, r.node_offset) # 0
                  THEN NullMap ELSE Map(r.sp_avail_bitmap),
        core_bitmap |-> Map(r.core_bitmap),
        avail_bitmap |-> r.avail_bitmap]

(* ---- select_p_resv_test: the topology-aware strategy ---- *)
switch_record_cnt == Len(switch_record_table)

(* the nodes of a bitmap, lowest index first *)
RECURSIVE NodesInOrder(_)
NodesInOrder(b) ==
  IF b = {} THEN <<>> ELSE <<SetMin(b)>> \o NodesInOrder(b \ {SetMin(b)})

(* cores of node n that are not set in the bitmap bits *)
FreeCoresOf(bits, n) == NodeCoreRange(n) \ bits

(* _get_avail_core_in_node: the count of cores of the node not set in
   core_bitmap; when the count is below cores_per_node every bit of the
   node is cleared in core_bitmap and the count returned is 0 *)
_get_avail_core_in_node(core_bitmap, node, cores_per_node) ==
  LET total_cores == cr_node_num_cores[node]
      avail == Cardinality(FreeCoresOf(core_bitmap.bits, node))
  IN IF ~core_bitmap.has THEN [c |-> total_cores, core_bitmap |-> core_bitmap]
     ELSE IF avail >= cores_per_node THEN [c |-> avail, core_bitmap |-> core_bitmap]
     ELSE [c |-> 0, core_bitmap |-> Map(core_bitmap.bits \ NodeCoreRange(node))]

(* lines 1868-1883: the least number of cores a node must offer *)
ResvAggr(core_cnt) == core_cnt.has /\ CoreCntAt(core_cnt, 1) = 0

(* the per-node minimum of an aggregate request rounded up *)
ResvCoresPerNode_ceil(node_cnt, core_cnt) ==
  IF core_cnt.has /\ CoreCntAt(core_cnt, 1) # 0
  THEN SetMin({core_cnt.cnt[j] : j \in 1 .. Len(core_cnt.cnt)})
  ELSE IF core_cnt.has
  THEN LET d == IF node_cnt > 1 THEN node_cnt ELSE 1
       IN (CoreCntAt(core_cnt, 0) + d - 1) \div d
  ELSE cr_node_num_cores[0]

ResvCoresPerNode(node_cnt, core_cnt) ==
  IF core_cnt.has /\ CoreCntAt(core_cnt, 1) # 0
  THEN SetMin({core_cnt.cnt[j] : j \in 1 .. Len(core_cnt.cnt)})
  ELSE IF core_cnt.has
  THEN CoreCntAt(core_cnt, 0) \div (IF node_cnt > 1 THEN node_cnt ELSE 1)
  ELSE cr_node_num_cores[0]

ResvRemCores(core_cnt) ==
  IF core_cnt.has /\ CoreCntAt(core_cnt, 1) # 0
  THEN SumUpTo(core_cnt.cnt, Len(core_cnt.cnt))
  ELSE IF core_cnt.has THEN CoreCntAt(core_cnt, 0)
  ELSE 0

(* the switch arrays built from every node of the switches *)
ResvSwitches_all_nodes(avail_bitmap, core_bitmap) ==
  LET sb == [i \in 1 .. switch_record_cnt |-> switch_record_table[i].node_bitmap]
      scb == [i \in 1 .. switch_record_cnt |->
                _make_core_bitmap_filtered(sb[i], 1) \
                  (IF core_bitmap.has THEN core_bitmap.bits ELSE {})]
  IN [switches_bitmap |-> sb,
      switches_node_cnt |-> [i \in 1 .. switch_record_cnt |-> Cardinality(sb[i])],
      switches_cpu_cnt |-> [i \in 1 .. switch_record_cnt |-> Cardinality(scb[i])]]

(* lines 1894-1911: the switch arrays restricted to the available nodes *)
ResvSwitches(avail_bitmap, core_bitmap) ==
  LET sb == [i \in 1 .. switch_record_cnt |->
               switch_record_table[i].node_bitmap \cap avail_bitmap]
      scb == [i \in 1 .. switch_record_cnt |->
                _make_core_bitmap_filtered(sb[i], 1) \
                  (IF core_bitmap.has THEN core_bitmap.bits ELSE {})]
  IN [switches_bitmap |-> sb,
      switches_node_cnt |-> [i \in 1 .. switch_record_cnt |-> Cardinality(sb[i])],
      switches_cpu_cnt |-> [i \in 1 .. switch_record_cnt |-> Cardinality(scb[i])]]

(* lines 1923-1947: one node of one switch is tested and, when it offers too
   few cores, removed from every switch.  s = [core_bitmap, switches_bitmap,
   switches_node_cnt, switches_cpu_cnt, n] *)
PruneNode(s, i, core_cnt, cores_per_node) ==
  LET g == _get_avail_core_in_node(s.core_bitmap, i, cores_per_node)
      c == g.c
      aggr == ResvAggr(core_cnt)
      clear_core == IF aggr THEN c < cores_per_node
                    ELSE c < CoreCntAt(core_cnt, s.n)
      n2 == IF ~aggr /\ ~clear_core /\ CoreCntAt(core_cnt, s.n) # 0
            THEN s.n + 1 ELSE s.n
      on == {k \in 1 .. switch_record_cnt : i \in s.switches_bitmap[k]}
  IN IF ~clear_core
     THEN [s EXCEPT !.core_bitmap = g.core_bitmap, !.n = n2]
     ELSE [core_bitmap |-> g.core_bitmap,
           n |-> n2,
           switches_bitmap |->
             [k \in 1 .. switch_record_cnt |-> s.switches_bitmap[k] \ {i}],
           switches_node_cnt |->
             [k \in 1 .. switch_record_cnt |->
                IF k \in on THEN s.switches_node_cnt[k] - 1
                ELSE s.switches_node_cnt[k]],
           switches_cpu_cnt |->
             [k \in 1 .. switch_record_cnt |->
                IF k \in on THEN s.switches_cpu_cnt[k] - c
                ELSE s.switches_cpu_cnt[k]]]

(* lines 1922-1948: the nodes of switch j, lowest index first; a node cleared
   from the switch meanwhile is skipped *)
RECURSIVE PruneSwitch(_, _, _, _, _, _)
PruneSwitch(s, j, todo, k, core_cnt, cores_per_node) ==
  IF k > Len(todo) THEN s
  ELSE IF todo[k] \notin s.switches_bitmap[j]
  THEN PruneSwitch(s, j, todo, k + 1, core_cnt, cores_per_node)
  ELSE PruneSwitch(PruneNode(s, todo[k], core_cnt, cores_per_node),
                   j, todo, k + 1, core_cnt, cores_per_node)

(* lines 1916-1949: every switch in table order *)
RECURSIVE PruneAll(_, _, _, _)
PruneAll(s, j, core_cnt, cores_per_node) ==
  IF j > switch_record_cnt THEN s
  ELSE PruneAll(PruneSwitch(s, j, NodesInOrder(s.switches_bitmap[j]), 1,
                            core_cnt, cores_per_node),
                j + 1, core_cnt, cores_per_node)

(* lines 1968-1981: the lowest level switch that satisfies the request, the one
   with the fewest nodes among those of a level; 0 when there is none *)
RECURSIVE BestFitSwitch(_, _, _, _, _, _)
BestFitSwitch(s, j, best_fit_inx, rem_nodes, rem_cores, core_cnt) ==
  IF j > switch_record_cnt THEN best_fit_inx
  ELSE IF s.switches_node_cnt[j] < rem_nodes
          \/ (core_cnt.has /\ s.switches_cpu_cnt[j] < rem_cores)
  THEN BestFitSwitch(s, j + 1, best_fit_inx, rem_nodes, rem_cores, core_cnt)
  ELSE IF best_fit_inx = 0
          \/ switch_record_table[j].level < switch_record_table[best_fit_inx].level
          \/ (switch_record_table[j].level = switch_record_table[best_fit_inx].level
              /\ s.switches_node_cnt[j] < s.switches_node_cnt[best_fit_inx])
  THEN BestFitSwitch(s, j + 1, j, rem_nodes, rem_cores, core_cnt)
  ELSE BestFitSwitch(s, j + 1, best_fit_inx, rem_nodes, rem_cores, core_cnt)

(* lines 1989-1995: only the leaves below the best fit keep their node count *)
UsableLeafs(s, best_fit_inx) ==
  [s EXCEPT !.switches_node_cnt =
     [j \in 1 .. switch_record_cnt |->
        IF switch_record_table[j].level # 0
           \/ ~(s.switches_bitmap[j] \subseteq s.switches_bitmap[best_fit_inx])
        THEN 0 ELSE s.switches_node_cnt[j]]]

(* lines 2001-2025: the leaf to take nodes from.
   b = [best_fit_nodes, best_fit_location, best_fit_sufficient] *)
RECURSIVE BestFitLeaf(_, _, _, _, _, _)
BestFitLeaf(s, j, b, rem_nodes, rem_cores, core_cnt) ==
  IF j > switch_record_cnt THEN b
  ELSE IF s.switches_node_cnt[j] = 0
  THEN BestFitLeaf(s, j + 1, b, rem_nodes, rem_cores, core_cnt)
  ELSE
    LET sufficient ==
          IF core_cnt.has
          THEN s.switches_node_cnt[j] >= rem_nodes /\ s.switches_cpu_cnt[j] >= rem_cores
          ELSE s.switches_node_cnt[j] >= rem_nodes
    IN IF b.best_fit_nodes = 0
          \/ (sufficient /\ ~b.best_fit_sufficient)
          \/ (sufficient /\ s.switches_node_cnt[j] < b.best_fit_nodes)
          \/ (~sufficient /\ s.switches_node_cnt[j] > b.best_fit_nodes)
       THEN BestFitLeaf(s, j + 1,
                        [best_fit_nodes |-> s.switches_node_cnt[j],
                         best_fit_location |-> j,
                         best_fit_sufficient |-> sufficient],
                        rem_nodes, rem_cores, core_cnt)
       ELSE BestFitLeaf(s, j + 1, b, rem_nodes, rem_cores, core_cnt)

(* lines 2034-2067: the nodes of the chosen leaf, lowest index first.
   s = [core_bitmap, switches_bitmap, switches_node_cnt, switches_cpu_cnt,
        avail_nodes_bitmap, rem_nodes, rem_cores, best_fit_location] *)
RECURSIVE TakeFromLeaf(_, _, _, _, _)
TakeFromLeaf(s, loc, todo, k, cores_per_node) ==
  IF k > Len(todo) THEN s
  ELSE
    LET i == todo[k]
        s1 == [s EXCEPT !.switches_bitmap[loc] = @ \ {i},
                        !.switches_node_cnt[loc] = @ - 1]
        avail_cores_in_node ==
          IF s.core_bitmap.has
          THEN Cardinality(FreeCoresOf(s.core_bitmap.bits, i))
          ELSE 0
    IN IF i \in s.avail_nodes_bitmap
          \/ (s.core_bitmap.has /\ avail_cores_in_node < cores_per_node)
       THEN TakeFromLeaf(s1, loc, todo, k + 1, cores_per_node)
       ELSE
         LET s2 == [s1 EXCEPT !.avail_nodes_bitmap = @ \cup {i},
                              !.rem_cores = @ - avail_cores_in_node,
                              !.rem_nodes = @ - 1]
         IN IF s2.rem_nodes <= 0 THEN s2
            ELSE TakeFromLeaf(s2, loc, todo, k + 1, cores_per_node)

(* lines 1999-2069: leaves are drained until rem_nodes nodes are chosen *)
RECURSIVE SelectFromLeafs(_, _, _)
SelectFromLeafs(s, core_cnt, cores_per_node) ==
  IF s.rem_nodes <= 0 THEN s
  ELSE
    LET b == BestFitLeaf(s, 1,
                         [best_fit_nodes |-> 0,
                          best_fit_location |-> s.best_fit_location,
                          best_fit_sufficient |-> FALSE],
                         s.rem_nodes, s.rem_cores, core_cnt)
        loc == b.best_fit_location
    IN IF b.best_fit_nodes = 0 THEN s
       ELSE
         LET t == TakeFromLeaf(s, loc, NodesInOrder(s.switches_bitmap[loc]),
                               1, cores_per_node)
         IN SelectFromLeafs([t EXCEPT !.switches_node_cnt[loc] = 0,
                                      !.best_fit_location = loc],
                            core_cnt, cores_per_node)

(* lines 2139-2156: the cores taken on one chosen node.
   t = [core_bitmap, exc_core_bitmap, rem_cores, avail_cores_in_node] *)
RECURSIVE PickTakeCores(_, _, _, _, _, _, _)
PickTakeCores(t, i, inx, core_cnt, n, aggr, cores_per_node) ==
  IF i >= cr_node_num_cores[inx] THEN t
  ELSE
    LET bit == cr_get_coremap_offset(inx) + i
        t2 == IF bit \notin t.exc_core_bitmap
              THEN [core_bitmap |-> t.core_bitmap \cup {bit},
                    exc_core_bitmap |-> t.exc_core_bitmap \cup {bit},
                    rem_cores |-> t.rem_cores - 1,
                    avail_cores_in_node |-> t.avail_cores_in_node + 1]
              ELSE t
    IN IF t2.rem_cores = 0
          \/ (aggr /\ t2.avail_cores_in_node >= cores_per_node)
          \/ (~aggr /\ t2.avail_cores_in_node >= CoreCntAt(core_cnt, n))
       THEN t2
       ELSE PickTakeCores(t2, i + 1, inx, core_cnt, n, aggr, cores_per_node)

(* lines 2097-2161: cores are taken on the chosen nodes, lowest index first;
   an aggregate request makes further passes with one core per node.
   s = [avail_nodes_bitmap, sp_avail_bitmap, core_bitmap, exc_core_bitmap,
        rem_cores, n, prev_rem_cores, cores_per_node] *)
RECURSIVE PickCores(_, _, _)
PickCores(s, core_cnt, aggr) ==
  IF s.rem_cores = 0 THEN s
  ELSE
    LET again == bit_ffs(s.avail_nodes_bitmap) < 0 /\ aggr /\ s.rem_cores > 0
                 /\ s.rem_cores # s.prev_rem_cores
        s0 == IF again
              THEN [s EXCEPT !.avail_nodes_bitmap = @ \cup s.sp_avail_bitmap,
                             !.prev_rem_cores = s.rem_cores,
                             !.cores_per_node = 1]
              ELSE s
        inx == bit_ffs(s0.avail_nodes_bitmap)
    IN IF inx < 0 THEN s0
       ELSE
         LET s1 == [s0 EXCEPT !.avail_nodes_bitmap = @ \ {inx}]
             free == Cardinality(FreeCoresOf(s0.exc_core_bitmap, inx))
         IN IF cr_node_num_cores[inx] < s0.cores_per_node
               \/ free < s0.cores_per_node
            THEN PickCores(s1, core_cnt, aggr)
            ELSE
              LET t == PickTakeCores([core_bitmap |-> s0.core_bitmap,
                                      exc_core_bitmap |-> s0.exc_core_bitmap,
                                      rem_cores |-> s0.rem_cores,
                                      avail_cores_in_node |-> 0],
                                     0, inx, core_cnt, s0.n, aggr,
                                     s0.cores_per_node)
              IN PickCores([s1 EXCEPT !.core_bitmap = t.core_bitmap,
                                      !.exc_core_bitmap = t.exc_core_bitmap,
                                      !.rem_cores = t.rem_cores,
                                      !.sp_avail_bitmap = @ \cup {inx},
                                      !.n = @ + 1],
                           core_cnt, aggr)

(* lines 1860-2173: the topology-aware strategy *)
TopologyPick(avail_bitmap, node_cnt, core_cnt, core_bitmap) ==
  IF Cardinality(avail_bitmap) < node_cnt
  THEN [nodes |-> NullMap, core_bitmap |-> core_bitmap, avail_bitmap |-> avail_bitmap]
  ELSE
    LET cb0 == IF core_cnt.has THEN _spec_core_filter(avail_bitmap, core_bitmap)
               ELSE core_bitmap
        aggr == ResvAggr(core_cnt)
        cores_per_node == ResvCoresPerNode(node_cnt, core_cnt)
        rem_cores_save == ResvRemCores(core_cnt)
        sw == ResvSwitches(avail_bitmap, cb0)
        p0 == [core_bitmap |-> cb0, n |-> 0,
               switches_bitmap |-> sw.switches_bitmap,
               switches_node_cnt |-> sw.switches_node_cnt,
               switches_cpu_cnt |-> sw.switches_cpu_cnt]
        p == IF core_cnt.has THEN PruneAll(p0, 1, core_cnt, cores_per_node) ELSE p0
        best_fit_inx == BestFitSwitch(p, 1, 0, node_cnt, rem_cores_save, core_cnt)
    IN IF best_fit_inx = 0
       THEN [nodes |-> NullMap, core_bitmap |-> p.core_bitmap,
             avail_bitmap |-> avail_bitmap]
       ELSE
         LET u == UsableLeafs(p, best_fit_inx)
             q == SelectFromLeafs([core_bitmap |-> u.core_bitmap,
                                   switches_bitmap |-> u.switches_bitmap,
                                   switches_node_cnt |-> u.switches_node_cnt,
                                   switches_cpu_cnt |-> u.switches_cpu_cnt,
                                   avail_nodes_bitmap |-> {},
                                   rem_nodes |-> node_cnt,
                                   rem_cores |-> rem_cores_save,
                                   best_fit_location |-> 1],
                                  core_cnt, cores_per_node)
             avail_nodes_bitmap ==
               IF q.rem_nodes > 0 \/ q.rem_cores > 0 THEN NullMap
               ELSE Map(q.avail_nodes_bitmap)
         IN IF avail_nodes_bitmap.has /\ core_cnt.has
            THEN
              LET f == PickCores([avail_nodes_bitmap |-> avail_nodes_bitmap.bits,
                                  sp_avail_bitmap |-> {},
                                  core_bitmap |-> {},
                                  exc_core_bitmap |-> p.core_bitmap.bits,
                                  rem_cores |-> rem_cores_save,
                                  n |-> 0,
                                  prev_rem_cores |-> -1,
                                  cores_per_node |-> cores_per_node],
                                 core_cnt, aggr)
              IN [nodes |-> IF f.rem_cores # 0 THEN NullMap
                            ELSE Map(f.sp_avail_bitmap),
                  core_bitmap |-> Map(f.core_bitmap),
                  avail_bitmap |-> avail_bitmap]
            ELSE [nodes |-> avail_nodes_bitmap, core_bitmap |-> p.core_bitmap,
                  avail_bitmap |-> avail_bitmap]

(* select_p_resv_test: FIRST_CORES with a core_cnt picks the first cores; a
   request without topology or without node_cnt is served sequentially *)
select_p_resv_test(first_cores, core_cnt, node_cnt, avail_bitmap, core_bitmap) ==
  IF first_cores /\ core_cnt.has
  THEN _pick_first_cores(avail_bitmap, node_cnt, core_cnt, core_bitmap)
  ELSE IF switch_record_cnt = 0 \/ node_cnt = 0
  THEN _sequential_pick(avail_bitmap, node_cnt, core_cnt, core_bitmap)
  ELSE TopologyPick(avail_bitmap, node_cnt, core_cnt, core_bitmap)

(* ---- reservation requests ---- *)
(* core_cnt arrays: an aggregate count, or one count per node *)
RECURSIVE SeqsOver(_, _)
SeqsOver(S, n) ==
  IF n = 0 THEN {<<>>}
  ELSE {Append(s, x) : s \in SeqsOver(S, n - 1), x \in S}

NoCoreCnt == [has |-> FALSE, cnt |-> <<>>]

CoreCntInputs ==
  {NoCoreCnt}
    \cup {[has |-> TRUE, cnt |-> <<c>>] : c \in 1 .. Cardinality(Cores)}
    \cup {[has |-> TRUE, cnt |-> s] :
            s \in UNION {SeqsOver(1 .. CoresPerNode, n) : n \in 2 .. NodeCnt}}

CoreBitmapInputs == {NullMap} \cup {Map(b) : b \in SUBSET Cores}

(* switch tables: none, one leaf, two leaves below a root in either order *)
Topologies ==
  { <<>>,
    <<[level |-> 0, node_bitmap |-> Nodes]>>,
    <<[level |-> 0, node_bitmap |-> {0}],
      [level |-> 0, node_bitmap |-> Nodes \ {0}],
      [level |-> 1, node_bitmap |-> Nodes]>>,
    <<[level |-> 0, node_bitmap |-> {0}],
      [level |-> 1, node_bitmap |-> Nodes],
      [level |-> 0, node_bitmap |-> Nodes \ {0}]>> }

(* no specialized core, the last core of node 0, or the last core of the *)
(* last node                                                            *)
SpecCoreChoices ==
  { {}, {cr_get_coremap_offset(1) - 1}, {cr_get_coremap_offset(NodeCnt) - 1} }

ResvRequest(first_cores, core_cnt, node_cnt, avail_bitmap, core_bitmap) ==
  [first_cores |-> first_cores, core_cnt |-> core_cnt, node_cnt |-> node_cnt,
   avail_bitmap |-> avail_bitmap, core_bitmap |-> core_bitmap]

(* the strategy select_p_resv_test takes for a request, lines 1849-1858 *)
StrategyOf(first_cores, core_cnt, node_cnt) ==
  IF first_cores /\ core_cnt.has THEN "first_cores"
  ELSE IF switch_record_cnt = 0 \/ node_cnt = 0 THEN "sequential"
  ELSE "topology"

(* what select_p_resv_test returns for the pending request *)
ResvResult ==
  [op |-> StrategyOf(resv.in.first_cores, resv.in.core_cnt, resv.in.node_cnt),
   in |-> resv.in,
   out |-> select_p_resv_test(resv.in.first_cores, resv.in.core_cnt,
                              resv.in.node_cnt, resv.in.avail_bitmap,
                              resv.in.core_bitmap)]

(* select_p_resv_test answers the pending request *)
ResvTest ==
  /\ resv.op = "request"
  /\ resv' = ResvResult
  /\ UNCHANGED <<select_node_record, select_node_usage, row, job_table,
                 select_fast_schedule, cr_memory, last,
                 switch_record_table, spec_cores, info_vars, script>>

(* the controller hands a reservation request to the planner *)
ResvSubmit ==
  /\ resv.op = "none"
  /\ \E first_cores \in BOOLEAN, core_cnt \in CoreCntInputs, node_cnt \in 0 .. NodeCnt,
        avail_bitmap \in SUBSET Nodes, core_bitmap \in CoreBitmapInputs :
       resv' = [op |-> "request",
                in |-> ResvRequest(first_cores, core_cnt, node_cnt,
                                   avail_bitmap, core_bitmap),
                out |-> NoResv.out]
  /\ UNCHANGED <<select_node_record, select_node_usage, row, job_table,
                 select_fast_schedule, cr_memory, last,
                 switch_record_table, spec_cores, info_vars, script>>

(* an idle cluster with one of the topologies *)
InitResv ==
  /\ IdleTables
  /\ cr_memory = FALSE
  /\ select_fast_schedule = 1
  /\ row = <<EmptyRow>>
  /\ switch_record_table \in Topologies
  /\ spec_cores \in SpecCoreChoices
  /\ resv = NoResv
  /\ node_record_table = NodeRecords(1, 1)
  /\ IdleInfo

NextResv ==
  \/ ResvSubmit
  \/ ResvTest

SpecResv == InitResv /\ [][NextResv]_vars

(* ---- node information roll-up ---- *)
(* lines 1201-1216: the OR of the row bitmaps of the partition; NULL when *)
(* no row has a bitmap                                                    *)
AllocCoreBitmap(rows) ==
  LET with == {i \in 1 .. Len(rows) : rows[i].has_bitmap}
  IN [has |-> with # {},
      bits |-> UNION {rows[i].first_row_bitmap : i \in with}]

(* the allocated cores of a node counted row by row, without a cap *)
AllocCpus_by_row(rows, nrt, fast_schedule, n) ==
  LET node_cpus == IF fast_schedule # 0 THEN nrt[n].config_ptr.cpus ELSE nrt[n].cpus
      node_threads == IF fast_schedule # 0 THEN nrt[n].config_ptr.threads
                      ELSE nrt[n].threads
      node_cores == cr_get_coremap_offset(n + 1) - cr_get_coremap_offset(n)
      counts == [i \in 1 .. Len(rows) |->
                   IF rows[i].has_bitmap
                   THEN Cardinality(rows[i].first_row_bitmap \cap NodeCoreRange(n))
                   ELSE 0]
      count == SumUpTo(counts, Len(rows))
  IN IF node_cores < node_cpus THEN count * node_threads ELSE count

(* lines 1233-1260: alloc_cpus of node n: the set bits of the node's range, *)
(* capped at the cores of the node, then scaled by the threads per core    *)
(* when the node has more CPUs than cores                                  *)
AllocCpus(rows, nrt, fast_schedule, n) ==
  LET alloc_core_bitmap == AllocCoreBitmap(rows)
      node_cpus == IF fast_schedule # 0 THEN nrt[n].config_ptr.cpus ELSE nrt[n].cpus
      node_threads == IF fast_schedule # 0 THEN nrt[n].config_ptr.threads
                      ELSE nrt[n].threads
      start == cr_get_coremap_offset(n)
      end == cr_get_coremap_offset(n + 1)
      counted == IF alloc_core_bitmap.has
                 THEN Cardinality({c \in alloc_core_bitmap.bits : start <= c /\ c < end})
                 ELSE 0
      node_cores == end - start
      capped == IF counted > node_cores THEN node_cores ELSE counted
  IN IF node_cores < node_cpus THEN capped * node_threads ELSE capped

(* select_p_select_nodeinfo_set_all, lines 1180-1294: the roll-up is skipped *)
(* only when last_node_update is older than the last roll-up                *)
select_p_select_nodeinfo_set_all ==
  IF last_set_all # 0 /\ last_node_update < last_set_all
  THEN [rc |-> SLURM_NO_CHANGE_IN_DATA, last_set_all |-> last_set_all,
        nodeinfo |-> nodeinfo]
  ELSE [rc |-> SLURM_SUCCESS, last_set_all |-> last_node_update,
        nodeinfo |->
          [n \in Nodes |->
             [alloc_cpus |-> AllocCpus(row, node_record_table,
                                       select_fast_schedule, n),
              alloc_memory |-> select_node_usage[n].alloc_memory]]]

(* the controller rolls the node information up *)
NodeinfoSetAll ==
  /\ LET r == select_p_select_nodeinfo_set_all
     IN /\ last_set_all' = r.last_set_all
        /\ nodeinfo' = r.nodeinfo
        /\ last' = Called("nodeinfo_set_all", 0, 0, r.rc)
  /\ UNCHANGED <<select_node_record, select_node_usage, row, job_table,
                 select_fast_schedule, cr_memory, resv_vars,
                 node_record_table, last_node_update, script>>

(* the controller changes the state of a node: last_node_update = time(NULL) *)
NodeUpdate ==
  /\ \E now \in last_node_update .. MaxTime :
       /\ now > last_node_update
       /\ last_node_update' = now
  /\ UNCHANGED <<select_node_record, select_node_usage, row, job_table,
                 select_fast_schedule, cr_memory, last, resv_vars,
                 node_record_table, last_set_all, nodeinfo, script>>

(* nodes of one or more threads per core, configured and found *)
InitInfo ==
  /\ IdleTables
  /\ switch_record_table = <<>>
  /\ spec_cores = {}
  /\ resv = NoResv
  /\ cr_memory = FALSE
  /\ select_fast_schedule \in {0, 1}
  /\ row = <<EmptyRow, EmptyRow>>
  /\ \E config_threads \in 1 .. MaxThreads, threads \in 1 .. MaxThreads :
       node_record_table = NodeRecords(config_threads, threads)
  /\ IdleInfo

(* two jobs of two nodes that share a core of node 0 *)
InfoJobs == {3, 4}

(* jobs start, are suspended, resumed and end between the roll-ups *)
NextInfo ==
  \/ AddJobIn(InfoJobs)
  \/ RmJob
  \/ Suspend
  \/ Resume
  \/ NodeUpdate
  \/ NodeinfoSetAll

SpecInfo == InitInfo /\ [][NextInfo]_vars

(* ---- scenario S1: four small jobs ---- *)
(* every node but the last, and the last node *)
S1Front == Nodes \ {NodeCnt - 1}
S1Back == {NodeCnt - 1}

(* the placements of scenario S1, lowest free core first: j1 core 0 of every *)
(* node, j2 core 1 of the front nodes, j3 core 1 of the last node, j4 core 0 *)
(* of the front nodes; job 5 is j4 placed on the cores of j2 instead         *)
S1Requests ==
  << Req(Nodes, [n \in Nodes |-> {0}], [n \in Nodes |-> 0],
         FALSE, NODE_CR_AVAILABLE, FALSE),
     Req(S1Front, [n \in S1Front |-> {1}], [n \in S1Front |-> 0],
         FALSE, NODE_CR_AVAILABLE, FALSE),
     Req(S1Back, [n \in S1Back |-> {1}], [n \in S1Back |-> 0],
         FALSE, NODE_CR_AVAILABLE, FALSE),
     Req(S1Front, [n \in S1Front |-> {0}], [n \in S1Front |-> 0],
         FALSE, NODE_CR_AVAILABLE, FALSE),
     Req(S1Front, [n \in S1Front |-> {1}], [n \in S1Front |-> 0],
         FALSE, NODE_CR_AVAILABLE, FALSE) >>

(* the state with the job record of job id of the scenario *)
S1Placed(id) == [State EXCEPT !.jt[id] = PlaceJob(S1Requests[id])]

(* a job of the scenario that fits a row starts *)
S1Add ==
  /\ Len(script) < MaxScript
  /\ \E id \in FreeIds \cap (1 .. Len(S1Requests)) :
       /\ FirstFitRow(PlaceJob(S1Requests[id]).job_resrcs, row) # 0
       /\ LET r == select_p_select_nodeinfo_set(S1Placed(id), id)
          IN /\ Commit(r)
             /\ last' = Called("add", id, 0, r.rc)
       /\ script' = Append(script, <<"add", id>>)
  /\ UNCHANGED <<select_node_record, select_fast_schedule, cr_memory, resv_vars,
                 info_vars>>

(* a job of the scenario ends *)
S1Rm ==
  /\ Len(script) < MaxScript
  /\ \E id \in LiveIds :
       LET r == select_p_job_fini(State, id)
       IN /\ select_node_usage' = r.st.usage
          /\ row' = r.st.row
          /\ job_table' = [r.st.jt EXCEPT ![id] = NoJob]
          /\ last' = Called("rm", id, 0, r.rc)
          /\ script' = Append(script, <<"rm", id>>)
  /\ UNCHANGED <<select_node_record, select_fast_schedule, cr_memory, resv_vars,
                 info_vars>>

(* a partition of two rows, no job yet *)
InitS1 ==
  /\ Idle
  /\ cr_memory = FALSE
  /\ select_fast_schedule = 1
  /\ row = <<EmptyRow, EmptyRow>>

NextS1 ==
  \/ S1Add
  \/ S1Rm

SpecS1 == InitS1 /\ [][NextS1]_vars

(* ======================= properties of the model ======================= *)
(* jobs of a row's job_list *)
RowJobs(r) == {r.job_list[k] : k \in 1 .. Len(r.job_list)}

(* row_bitmap of a row, all clear while none is allocated *)
RowBitmap(r) == IF r.has_bitmap THEN r.first_row_bitmap ELSE {}

(* OR of the projected core_bitmaps of the jobs of a row *)
RowOr(r, jt) == UNION {Project(jt[id].job_resrcs) : id \in RowJobs(r)}

(* C1: in every row, row_bitmap equals the OR of the projected             *)
(* core_bitmaps of exactly the jobs of the row's job_list, after any       *)
(* sequence of add, rm, rm_one_node, suspend, resume and expand calls      *)
C1_RowBitmapIsOrOfJobs ==
  \A i \in 1 .. Len(row) : RowBitmap(row[i]) = RowOr(row[i], job_table)

(* C2: two jobs of the same row have disjoint projected core_bitmaps *)
C2_RowJobsDisjoint ==
  \A i \in 1 .. Len(row) :
    \A k1, k2 \in 1 .. Len(row[i].job_list) :
      k1 # k2 =>
        Project(job_table[row[i].job_list[k1]].job_resrcs) \cap
        Project(job_table[row[i].job_list[k2]].job_resrcs) = {}

(* a row holds two jobs that overlap nowhere *)
C2_Witness ==
  \E i \in 1 .. Len(row) :
    /\ row[i].num_jobs >= 2
    /\ \A id \in RowJobs(row[i]) : Project(job_table[id].job_resrcs) # {}
    /\ last.op \in {"add", "resume", "expand"}

(* ---------------------------- the row packer --------------------------- *)
(* number of rows that hold a job *)
UsedRows(rw) == Cardinality({i \in 1 .. Len(rw) : rw[i].num_jobs > 0})

(* jobs held by the rows *)
Resident(rw) == UNION {RowJobs(rw[i]) : i \in 1 .. Len(rw)}

(* the packer runs of the next call: PackerRuns is the set of              *)
(* [before, after, jt] with before the rows handed to _build_row_bitmaps   *)
(* and after the rows it leaves, for the removal of every resident job and *)
(* for every node a resident running job can give up                       *)
RmRuns ==
  {[before |-> RemoveFromRow(row, FindJob(row, id)),
    after |-> common_rm_job_res(State, id, 0, TRUE).st.row,
    jt |-> job_table] : id \in Resident(row)}

OneNodeRuns ==
  {[before |-> row,
    after |-> _rm_job_from_one_node(State, c[1], c[2]).st.row,
    jt |-> _rm_job_from_one_node(State, c[1], c[2]).st.jt] :
     c \in {d \in Resident(row) \X Nodes :
              /\ IS_JOB_RUNNING(job_table[d[1]])
              /\ d[2] \in job_table[d[1]].job_resrcs.node_bitmap
              /\ job_table[d[1]].job_resrcs.nhosts > 1}}

PackerRuns == RmRuns \cup OneNodeRuns

(* C6: a run of the packer, no job added, never increases the number of    *)
(* used rows                                                               *)
C6_PackerNeverUsesMoreRows ==
  \A run \in PackerRuns : UsedRows(run.after) <= UsedRows(run.before)

(* C7: a run of the packer, no job added, never increases the popcount of  *)
(* the row_bitmap of any row                                               *)
C7_NoRowGrows ==
  \A run \in PackerRuns :
    \A i \in 1 .. Len(row) :
      RowSetCount(run.after[i]) <= RowSetCount(run.before[i])

(* set bits of all rows together *)
TotalSetCount(rw) == SumSeq([i \in 1 .. Len(rw) |-> RowSetCount(rw[i])])

(* C7 amended: a run of the packer never increases the number of set bits  *)
(* of all row bitmaps together, and keeps every job it was handed          *)
C7_TotalNeverGrows ==
  \A run \in PackerRuns :
    /\ TotalSetCount(run.after) <= TotalSetCount(run.before)
    /\ Resident(run.after) = Resident(run.before)

(* a removal has re-packed the jobs of two rows into one *)
C7_Witness ==
  /\ last.op = "rm"
  /\ UsedRows(row) = 1
  /\ row[1].num_jobs >= 2
  /\ Len(row) >= 2

(* two jobs share a global core position *)
Conflict(jt, a, b) ==
  Project(jt[a].job_resrcs) \cap Project(jt[b].job_resrcs) # {}

(* the jobs ids can be split into k groups of pairwise disjoint jobs *)
Splits(ids, k, jt) ==
  \E f \in [ids -> 1 .. k] :
    \A a, b \in ids : (a # b /\ f[a] = f[b]) => ~Conflict(jt, a, b)

(* the smallest number of groups of pairwise disjoint jobs *)
MinRows(ids, jt) ==
  IF ids = {} THEN 0
  ELSE CHOOSE k \in 1 .. Cardinality(ids) :
         Splits(ids, k, jt) /\ \A m \in 1 .. (k - 1) : ~Splits(ids, m, jt)

DensestFirst(rw) ==
  \A i \in 1 .. (Len(rw) - 1) :
    /\ RowSetCount(rw[i]) >= RowSetCount(rw[i + 1])
    /\ (rw[i].num_jobs = 0) => (rw[i + 1].num_jobs = 0)

(* C9: when the packer returns for a partition of more than one row, on    *)
(* every exit path, the rows are ordered densest first and no non-empty    *)
(* row follows an empty row                                                *)
C9_RowsDensestFirst ==
  \A run \in PackerRuns : (Len(row) > 1) => DensestFirst(run.after)

(* ------------------------------- memory --------------------------------- *)
(* memory allocated on all nodes together *)
TotalAllocMemory ==
  SumSeq([k \in 1 .. NodeCnt |-> select_node_usage[k - 1].alloc_memory])

(* memory the running jobs hold on all their nodes together *)
TotalJobMemory ==
  SumSeq([id \in JobIds |->
            IF IS_JOB_RUNNING(job_table[id])
            THEN SumSeq(job_table[id].job_resrcs.memory_allocated)
            ELSE 0])

(* C3: the alloc_memory of all nodes together equals the memory_allocated  *)
(* entries of all running jobs together, after any sequence of lifecycle   *)
(* operations                                                              *)
C3_MemoryConservation == TotalAllocMemory = TotalJobMemory

(* C4: on every node alloc_memory is at most real_memory - mem_spec_limit, *)
(* after job_mem_confirm and update_node_config as after add and remove    *)
C4_AllocWithinAvail ==
  \A n \in Nodes :
    select_node_usage[n].alloc_memory <= AvailMem(select_node_record, n)

(* ------------------------------ round trip ------------------------------ *)
(* add_job_to_res of a job that can start, then rm_job_from_res of it *)
AddThenRm(id) ==
  common_rm_job_res(common_add_job_to_res(Placed(id), id, 0).st, id, 0, TRUE)

(* the job lists and row bitmaps of two row tables are the same *)
SameRows(r1, r2) ==
  /\ Len(r1) = Len(r2)
  /\ \A i \in 1 .. Len(r1) :
       /\ r1[i].job_list = r2[i].job_list
       /\ RowBitmap(r1[i]) = RowBitmap(r2[i])

Dangling(run) ==
  /\ Len(run.before) > 1
  /\ TotalJobs(run.before) > 0
  /\ PackedLayout(run.before, run.jt).dangling

(* C9 amended: when the packer returns for a partition of more than one    *)
(* row with every job placed, the rows are ordered densest first and no    *)
(* non-empty row follows an empty row; when a job is left dangling the     *)
(* rows keep the job lists they had, in the order they had                 *)
C9_PackedRowsDensestFirst ==
  \A run \in PackerRuns :
    (Len(row) > 1) =>
      IF Dangling(run)
      THEN \A i \in 1 .. Len(row) : run.after[i].job_list = run.before[i].job_list
      ELSE DensestFirst(run.after)

(* a removal re-packed the jobs into two rows, the denser one first *)
C9_Witness ==
  /\ last.op = "rm"
  /\ Len(row) > 1
  /\ UsedRows(row) >= 2
  /\ RowSetCount(row[1]) > RowSetCount(row[2])
  /\ row[2].num_jobs > 0

(* ---------------------------- add_job_to_res ---------------------------- *)
(* the calls of add_job_to_res the controller can make now: the start of a *)
(* job that can start, the resume of a job the administrator suspended     *)
AddCalls ==
  {[st |-> Placed(id), id |-> id, action |-> 0] :
     id \in {j \in JobIds : CanStart(j)}}
  \cup
  {[st |-> State, id |-> id, action |-> 2] :
     id \in {j \in JobIds : IS_JOB_SUSPENDED(job_table[j]) /\ job_table[j].indf_susp
                            /\ job_table[j].job_resrcs.nhosts > 0}}

(* the fit test of 4.2: a row without jobs fits; otherwise no core of the  *)
(* job is set in the row bitmap, and a whole-node job finds its nodes free *)
FitsRow(job, r) ==
  \/ r.num_jobs = 0
  \/ ~r.has_bitmap
  \/ /\ Project(job) \cap r.first_row_bitmap = {}
     /\ job.whole_node =>
          \A n \in job.node_bitmap : NodeCoreRange(n) \cap r.first_row_bitmap = {}

(* C10: add_job_to_res puts the job into the lowest-indexed row that       *)
(* passes the fit test and ORs its cores into that row's bitmap; when no   *)
(* row passes it returns an error and the job is in no row                 *)
C10_AddLowestFittingRow ==
  \A c \in AddCalls :
    LET job == c.st.jt[c.id].job_resrcs
        r == common_add_job_to_res(c.st, c.id, c.action)
        fit == {k \in 1 .. Len(row) : FitsRow(job, c.st.row[k])}
    IN IF fit = {}
       THEN /\ r.rc = SLURM_ERROR
            /\ c.id \notin Resident(r.st.row)
            /\ r.st.row = c.st.row
       ELSE /\ r.rc = SLURM_SUCCESS
            /\ r.st.row[SetMin(fit)].job_list =
                 Append(c.st.row[SetMin(fit)].job_list, c.id)
            /\ RowBitmap(r.st.row[SetMin(fit)]) =
                 (IF c.st.row[SetMin(fit)].num_jobs = 0 THEN {}
                  ELSE RowBitmap(c.st.row[SetMin(fit)])) \cup Project(job)
            /\ \A k \in 1 .. Len(row) :
                 k # SetMin(fit) => r.st.row[k] = c.st.row[k]

(* a resume found no row for the job: it returned an error and the job,    *)
(* running again, is in no row                                             *)
C10_Witness ==
  /\ last.op = "resume"
  /\ last.rc = SLURM_ERROR
  /\ \E id \in JobIds :
       /\ IS_JOB_RUNNING(job_table[id])
       /\ job_table[id].job_resrcs.nhosts > 0
       /\ id \notin Resident(row)

(* ------------------------------ the fit test ---------------------------- *)
(* the job resources the fit test is called with: those of the jobs in the *)
(* job table and those of the jobs the placement can build next            *)
FitJobs ==
  {job_table[id].job_resrcs :
     id \in {j \in LiveIds : job_table[j].job_resrcs.nhosts > 0}}
  \cup
  {PlaceJob(RequestOf(id)).job_resrcs : id \in FreeIds}

(* C11: the fit test returns true exactly when no global core position is  *)
(* set both in the job's projected core bitmap and in the row bitmap; a    *)
(* row with no job or no bitmap always fits                                *)
C11_FitIffDisjoint ==
  \A job \in FitJobs : \A i \in 1 .. Len(row) :
    _can_job_fit_in_row(job, row[i])
      <=> \/ row[i].num_jobs = 0
          \/ ~row[i].has_bitmap
          \/ Project(job) \cap row[i].first_row_bitmap = {}

(* C11 amended: a row with no job or no bitmap always fits; otherwise the  *)
(* test is true exactly when no projected core of the job is set in the    *)
(* row bitmap and, for a whole-node job, no bit of the row bitmap is set   *)
(* on any node of the job                                                  *)
C11_FitIffDisjointOrWholeNodeFree ==
  \A job \in FitJobs : \A i \in 1 .. Len(row) :
    _can_job_fit_in_row(job, row[i])
      <=> \/ row[i].num_jobs = 0
          \/ ~row[i].has_bitmap
          \/ /\ Project(job) \cap row[i].first_row_bitmap = {}
             /\ job.whole_node =>
                  \A n \in job.node_bitmap :
                    NodeCoreRange(n) \cap row[i].first_row_bitmap = {}

(* a whole-node job is refused by a row that holds none of its cores but   *)
(* a core of one of its nodes, and a job is accepted by a row with jobs    *)
C11_Witness ==
  /\ \E job \in FitJobs : \E i \in 1 .. Len(row) :
       /\ job.whole_node
       /\ row[i].num_jobs > 0
       /\ Project(job) \cap RowBitmap(row[i]) = {}
       /\ ~_can_job_fit_in_row(job, row[i])
  /\ \E job \in FitJobs : \E i \in 1 .. Len(row) :
       /\ row[i].num_jobs > 0
       /\ _can_job_fit_in_row(job, row[i])

(* --------------------------- suspend and resume ------------------------- *)
(* the running jobs the administrator can suspend, the jobs the            *)
(* administrator suspended and can resume                                  *)
SuspendCalls ==
  {id \in Resident(row) :
     IS_JOB_RUNNING(job_table[id]) /\ job_table[id].job_resrcs.nhosts > 0}

ResumeCalls ==
  {id \in LiveIds :
     /\ IS_JOB_SUSPENDED(job_table[id])
     /\ job_table[id].indf_susp
     /\ job_table[id].job_resrcs.nhosts > 0}

(* alloc_memory of every node is the same in two node usage tables *)
SameAllocMemory(u1, u2) ==
  \A n \in Nodes : u1[n].alloc_memory = u2[n].alloc_memory

(* C12: job_suspend with indf_susp = true removes the job from its row, so *)
(* its cores are set in no row_bitmap any more, and leaves alloc_memory of *)
(* every node unchanged; a later job_resume puts the job back into a row   *)
C12_SuspendFreesCores ==
  /\ \A id \in SuspendCalls :
       LET r == select_p_job_suspend(State, id, TRUE)
       IN /\ id \notin Resident(r.st.row)
          /\ \A i \in 1 .. Len(row) :
               Project(job_table[id].job_resrcs) \cap RowBitmap(r.st.row[i]) = {}
          /\ SameAllocMemory(r.st.usage, select_node_usage)
  /\ \A id \in ResumeCalls :
       id \in Resident(select_p_job_resume(State, id, TRUE).st.row)

(* C12 amended: job_suspend with indf_susp = true takes the job out of the *)
(* job lists; a core of the job stays set in a row_bitmap only where a job *)
(* left in that row holds it; alloc_memory is unchanged; a later           *)
(* job_resume puts the job into the first row that passes the fit test and *)
(* returns an error, the job in no row, when none passes; it leaves        *)
(* alloc_memory unchanged                                                  *)
C12_SuspendLeavesRow ==
  /\ \A id \in SuspendCalls :
       LET r == select_p_job_suspend(State, id, TRUE)
       IN /\ r.rc = SLURM_SUCCESS
          /\ Resident(r.st.row) = Resident(row) \ {id}
          /\ \A i \in 1 .. Len(row) :
               (Project(job_table[id].job_resrcs) \cap RowBitmap(r.st.row[i]))
                 \subseteq RowOr(r.st.row[i], job_table)
          /\ SameAllocMemory(r.st.usage, select_node_usage)
  /\ \A id \in ResumeCalls :
       LET r == select_p_job_resume(State, id, TRUE)
           fit == {k \in 1 .. Len(row) :
                     _can_job_fit_in_row(job_table[id].job_resrcs, row[k])}
       IN /\ SameAllocMemory(r.st.usage, select_node_usage)
          /\ IF fit = {}
             THEN r.rc = SLURM_ERROR /\ id \notin Resident(r.st.row)
             ELSE r.rc = SLURM_SUCCESS /\ id \in RowJobs(r.st.row[SetMin(fit)])

(* the administrator suspended a job that holds memory: it is in no row,   *)
(* its memory is still allocated on its nodes, and a core of it is still   *)
(* set in the row of another job                                           *)
C12_Witness ==
  /\ last.op = "suspend"
  /\ last.rc = SLURM_SUCCESS
  /\ \E id \in ResumeCalls :
       /\ id \notin Resident(row)
       /\ \E n \in job_table[id].job_resrcs.node_bitmap :
            /\ JobMemAt(job_table[id].job_resrcs, n) > 0
            /\ select_node_usage[n].alloc_memory >=
                 JobMemAt(job_table[id].job_resrcs, n)
       /\ \E i \in 1 .. Len(row) :
            Project(job_table[id].job_resrcs) \cap RowBitmap(row[i]) # {}

(* C13: job_suspend and job_resume called with indf_susp = false return    *)
(* success and leave the node usage table, the rows of the partition and   *)
(* the job resources of the job unchanged                                  *)
C13_GangSuspendIsNoOp ==
  \A id \in LiveIds :
    /\ select_p_job_suspend(State, id, FALSE).rc = SLURM_SUCCESS
    /\ select_p_job_suspend(State, id, FALSE).st.usage = select_node_usage
    /\ select_p_job_suspend(State, id, FALSE).st.row = row
    /\ select_p_job_suspend(State, id, FALSE).st.jt[id].job_resrcs =
         job_table[id].job_resrcs
    /\ select_p_job_resume(State, id, FALSE).rc = SLURM_SUCCESS
    /\ select_p_job_resume(State, id, FALSE).st.usage = select_node_usage
    /\ select_p_job_resume(State, id, FALSE).st.row = row
    /\ select_p_job_resume(State, id, FALSE).st.jt[id].job_resrcs =
         job_table[id].job_resrcs

(* the gang scheduler suspended a job: it is still in its row and its      *)
(* memory is still allocated                                               *)
C13_Witness ==
  /\ last.op = "suspend"
  /\ last.rc = SLURM_SUCCESS
  /\ \E id \in Resident(row) :
       /\ IS_JOB_SUSPENDED(job_table[id])
       /\ ~job_table[id].indf_susp
       /\ Project(job_table[id].job_resrcs) # {}
       /\ \E n \in job_table[id].job_resrcs.node_bitmap :
            select_node_usage[n].alloc_memory > 0

(* ------------------------- rm_job_from_one_node ------------------------- *)
(* the calls <<job, node>> of _rm_job_from_one_node for a node of the      *)
(* job's node_bitmap that is not the last node of the job                  *)
OneNodeCalls ==
  {c \in LiveIds \X Nodes :
     /\ c[2] \in job_table[c[1]].job_resrcs.node_bitmap
     /\ job_table[c[1]].job_resrcs.nhosts > 1}

(* the job resources after the call have lost the node at rank rank        *)
NodeExtracted(old, new, node) ==
  /\ new.node_bitmap = old.node_bitmap \ {node}
  /\ new.nhosts = old.nhosts - 1
  /\ new.cpus = DropAt(old.cpus, Rank(old.node_bitmap, node) + 1)
  /\ new.memory_allocated =
       DropAt(old.memory_allocated, Rank(old.node_bitmap, node) + 1)
  /\ Len(new.cpus) = new.nhosts

ExpandCalls ==
  {c \in LiveIds \X LiveIds :
     /\ c[1] # c[2]
     /\ IS_JOB_RUNNING(job_table[c[1]])
     /\ IS_JOB_RUNNING(job_table[c[2]])
     /\ job_table[c[1]].job_resrcs.nhosts > 0
     /\ job_table[c[2]].job_resrcs.nhosts > 0
     /\ job_table[c[1]].job_resrcs.ncpus + job_table[c[2]].job_resrcs.ncpus
          <= MaxCpus}

(* target_nodes of job_expand(from, to) *)
TargetNodes(from_id, to_id) ==
  (job_table[from_id].job_resrcs.node_bitmap \cup
     job_table[to_id].job_resrcs.node_bitmap)
  \cap (job_table[from_id].node_bitmap \cup job_table[to_id].node_bitmap)

(* the job resources of to cover exactly target_nodes *)
CoversTarget(jrr, target) ==
  /\ jrr.node_bitmap = target
  /\ jrr.nhosts = Cardinality(target)
  /\ Len(jrr.cpus) = Cardinality(target)
  /\ Len(jrr.memory_allocated) = Cardinality(target)

(* the counts and node bitmaps of from are zero *)
CountsCleared(job_ptr) ==
  /\ job_ptr.total_cpus = 0
  /\ job_ptr.node_bitmap = {}
  /\ job_ptr.job_resrcs.nhosts = 0
  /\ job_ptr.job_resrcs.ncpus = 0
  /\ job_ptr.job_resrcs.node_bitmap = {}
  /\ \A k \in 1 .. Len(job_ptr.job_resrcs.cpus) : job_ptr.job_resrcs.cpus[k] = 0

LocalCores(job, n) ==
  IF n \in job.node_bitmap
  THEN {c \in 0 .. (cr_node_num_cores[n] - 1) :
          (PackedOffsetOf(job.node_bitmap, n) + c) \in job.core_bitmap}
  ELSE {}

(* cpus of a job at node n, 0 off its nodes *)
JobCpusAt(job, n) ==
  IF n \in job.node_bitmap THEN job.cpus[Rank(job.node_bitmap, n) + 1] ELSE 0

(* C16: job_expand(from, to) preserves the sum of cpus and the sum of      *)
(* memory over all nodes: the cpus[] of the merged job resources add up to *)
(* the cpus[] of from plus the cpus[] of to before the call, and likewise  *)
(* memory_allocated[]                                                      *)
C16_ExpandPreservesSums ==
  \A c \in ExpandCalls :
    LET from == job_table[c[1]].job_resrcs
        to == job_table[c[2]].job_resrcs
        new == _job_expand(State, c[1], c[2]).st.jt[c[2]].job_resrcs
    IN /\ SumSeq(new.cpus) = SumSeq(from.cpus) + SumSeq(to.cpus)
       /\ SumSeq(new.memory_allocated) =
            SumSeq(from.memory_allocated) + SumSeq(to.memory_allocated)

(* cpus of the merged job at a node: the cpus of both jobs, scaled by the  *)
(* share of distinct cores when the jobs hold a core of the node in common *)
MergedCpus(from, to, n) ==
  LET both == Cardinality(LocalCores(from, n)) + Cardinality(LocalCores(to, n))
      distinct == Cardinality(LocalCores(from, n) \cup LocalCores(to, n))
      sum == JobCpusAt(from, n) + JobCpusAt(to, n)
  IN IF both = distinct THEN sum ELSE (sum * distinct) \div both

(* C16 amended: job_expand preserves memory node by node, and cpus on      *)
(* every node where the two jobs hold no core in common; on a node where   *)
(* they share cores the merged cpus are                                    *)
(* (from.cpus + to.cpus) * distinct cores / (from cores + to cores)        *)
C16_ExpandScalesSharedCpus ==
  \A c \in ExpandCalls :
    LET from == job_table[c[1]].job_resrcs
        to == job_table[c[2]].job_resrcs
        new == _job_expand(State, c[1], c[2]).st.jt[c[2]].job_resrcs
    IN /\ new.ncpus = from.ncpus + to.ncpus
       /\ \A n \in new.node_bitmap :
            /\ JobCpusAt(new, n) = MergedCpus(from, to, n)
            /\ JobMemAt(new, n) = JobMemAt(from, n) + JobMemAt(to, n)
            /\ LocalCores(new, n) = LocalCores(from, n) \cup LocalCores(to, n)
       /\ SumSeq(new.memory_allocated) =
            SumSeq(from.memory_allocated) + SumSeq(to.memory_allocated)
       /\ (\A n \in Nodes : LocalCores(from, n) \cap LocalCores(to, n) = {})
            => SumSeq(new.cpus) = SumSeq(from.cpus) + SumSeq(to.cpus)

(* two jobs that hold memory and share a core of a node can be merged, and *)
(* the merged job has fewer cpus than the two together                     *)
C16_Witness ==
  \E c \in ExpandCalls :
    LET from == job_table[c[1]].job_resrcs
        to == job_table[c[2]].job_resrcs
        new == _job_expand(State, c[1], c[2]).st.jt[c[2]].job_resrcs
    IN /\ \E n \in Nodes : LocalCores(from, n) \cap LocalCores(to, n) # {}
       /\ SumSeq(from.memory_allocated) > 0
       /\ SumSeq(to.memory_allocated) > 0
       /\ SumSeq(new.cpus) < SumSeq(from.cpus) + SumSeq(to.cpus)
       /\ SumSeq(new.memory_allocated) =
            SumSeq(from.memory_allocated) + SumSeq(to.memory_allocated)

(* ---- the reservation planner ---- *)
(* the planner answered the request with a selection *)
ResvSelected == resv.op \in {"first_cores", "sequential", "topology"} /\ resv.out.nodes.has

ResvNodeCount == Cardinality(resv.out.nodes.bits)

(* entries of the request's core_cnt array before its terminator *)
ResvCoreCntLen == Len(resv.in.core_cnt.cnt)

ResvCoreCount == Cardinality(resv.out.core_bitmap.bits)

(* the cores a request asks for: core_cnt[0] of an aggregate request, the *)
(* sum of the entries of a per-node array                                 *)
ResvRequestedCores == SumUpTo(resv.in.core_cnt.cnt, ResvCoreCntLen)

(* C19 as stated: whenever the planner returns a selection for a request  *)
(* with a core_cnt, the output core_bitmap has at least the requested     *)
(* number of cores set: core_cnt[0] in aggregate mode, the sum of the     *)
(* core_cnt entries otherwise                                             *)
C19_AtLeastRequestedCores ==
  ResvSelected /\ resv.in.core_cnt.has => ResvCoreCount >= ResvRequestedCores

(* C19 amended: with a core_cnt and a selection returned, the topology     *)
(* strategy sets exactly the requested number of cores and FIRST_CORES at  *)
(* least that many; the sequential strategy sets exactly core_cnt[0] cores *)
(* when node_cnt > 0, whatever further entries the array has, and for a    *)
(* node list (node_cnt = 0) exactly the sum of the first entries, one per  *)
(* node of avail_bitmap                                                    *)
C19_CoresOfTheStrategyTarget ==
  ResvSelected /\ resv.in.core_cnt.has =>
    /\ resv.op = "topology" => ResvCoreCount = ResvRequestedCores
    /\ resv.op = "first_cores" => ResvCoreCount >= ResvRequestedCores
    /\ resv.op = "sequential" /\ resv.in.node_cnt > 0
         => ResvCoreCount = CoreCntAt(resv.in.core_cnt, 0)
    /\ resv.op = "sequential" /\ resv.in.node_cnt = 0
         => ResvCoreCount = SeqListTotal(resv.in.core_cnt,
                                         Cardinality(resv.in.avail_bitmap))

(* a node list of two nodes asking one core of the first node and two of *)
(* the second was served sequentially with three cores                   *)
C19_Witness ==
  /\ ResvSelected
  /\ resv.op = "sequential"
  /\ resv.in.node_cnt = 0
  /\ resv.in.core_cnt = [has |-> TRUE, cnt |-> <<1, 2>>]
  /\ resv.out.nodes.bits = {0, 1}
  /\ ResvCoreCount = 3

(* C20: whenever the planner returns a selection for a request with a    *)
(* core_cnt, no core set in the output core_bitmap was set in the         *)
(* core_bitmap passed in, and none is a specialized core of its node      *)
C20_SelectedCoresWereFree ==
  ResvSelected /\ resv.in.core_cnt.has =>
    resv.out.core_bitmap.bits \cap (resv.in.core_bitmap.bits \cup spec_cores) = {}

(* the planner answered the request without a selection *)
ResvFailed == resv.op \in {"first_cores", "sequential", "topology"} /\ ~resv.out.nodes.has

(* C21: when the reservation planner fails, the caller's avail_bitmap holds *)
(* exactly the same nodes as before the call, in each of the FIRST_CORES,   *)
(* topology and sequential strategies                                       *)
C21_AvailBitmapKeptOnFailure ==
  ResvFailed => resv.out.avail_bitmap = resv.in.avail_bitmap

(* C22: the planner never partially commits: when it fails it returns a   *)
(* null selection and the in/out core_bitmap is the same as on entry, no  *)
(* core of a partially built reservation is left set in it                *)
C22_CoreBitmapKeptOnFailure ==
  ResvFailed => resv.out.core_bitmap = resv.in.core_bitmap

(* ---- FIRST_CORES ---- *)
(* the cores of node n a request may take: not set in the core_bitmap *)
(* passed in, not specialized, and on a node of avail_bitmap          *)
ResvFreeCores(n) ==
  NodeCoreRange(n) \ _spec_core_filter(resv.in.avail_bitmap, resv.in.core_bitmap).bits

(* the k lowest elements of a set of cores *)
LowestK(S, k) == {x \in S : Cardinality({y \in S : y < x}) < k}

(* the first k cores of node n *)
LeadingCores(n, k) == {cr_get_coremap_offset(n) + j : j \in 0 .. (k - 1)}

(* the selected nodes, lowest index first *)
ResvSelectedInOrder == NodesInOrder(resv.out.nodes.bits)

(* the nodes FIRST_CORES passed over before it selected its last node *)
ResvSkipped ==
  {n \in Nodes \ resv.out.nodes.bits :
     /\ bit_ffs(resv.in.avail_bitmap) <= n
     /\ n < bit_fls(resv.out.nodes.bits)}

(* selected nodes below node n: the index of the core_cnt entry n was tried for *)
ResvPositionOf(n) == Cardinality({m \in resv.out.nodes.bits : m < n})

SufficientLeafs ==
  {j \in 1 .. switch_record_cnt :
     /\ switch_record_table[j].level = 0
     /\ Cardinality(switch_record_table[j].node_bitmap \cap resv.in.avail_bitmap)
          >= resv.in.node_cnt}

(* the sufficient leaf with the fewest available nodes, the lowest index on ties *)
TightestLeaf ==
  CHOOSE j \in SufficientLeafs :
    \A k \in SufficientLeafs :
      LET cj == Cardinality(switch_record_table[j].node_bitmap \cap resv.in.avail_bitmap)
          ck == Cardinality(switch_record_table[k].node_bitmap \cap resv.in.avail_bitmap)
      IN cj < ck \/ (cj = ck /\ j <= k)

(* C24: a topology request without core_cnt, when some leaf holds at least   *)
(* node_cnt available nodes, selects exactly the node_cnt lowest available   *)
(* nodes of the tightest sufficient leaf (lowest index on ties)              *)
C24_TightestLeafLowestNodes ==
  resv.op = "topology" /\ ~resv.in.core_cnt.has /\ SufficientLeafs # {} =>
    /\ ResvSelected
    /\ resv.out.nodes.bits =
         LowestK(switch_record_table[TightestLeaf].node_bitmap \cap resv.in.avail_bitmap,
                 resv.in.node_cnt)

(* ---- aggregate core counts ---- *)
(* an aggregate request for node_cnt nodes, served sequentially or by topology *)
ResvAggregate ==
  /\ resv.op \in {"sequential", "topology"}
  /\ ResvAggr(resv.in.core_cnt)
  /\ resv.in.node_cnt > 0

(* core_cnt[0] / node_cnt rounded up, and rounded down *)
ResvCeilPerNode ==
  (CoreCntAt(resv.in.core_cnt, 0) + resv.in.node_cnt - 1) \div resv.in.node_cnt

ResvFloorPerNode == CoreCntAt(resv.in.core_cnt, 0) \div resv.in.node_cnt

(* the cores of node n set in the output core_bitmap *)
ResvCoresOn(n) == Cardinality(resv.out.core_bitmap.bits \cap NodeCoreRange(n))

ThreadScale(n) ==
  LET rec == IF select_fast_schedule # 0 THEN node_record_table[n].config_ptr
             ELSE [cpus |-> node_record_table[n].cpus,
                   threads |-> node_record_table[n].threads]
  IN IF cr_node_num_cores[n] < rec.cpus THEN rec.threads ELSE 1

(* the cores of node n allocated in one row or another *)
CoresInUse(n) ==
  {c \in NodeCoreRange(n) : \E i \in 1 .. Len(row) : c \in RowBitmap(row[i])}

(* the last call rolled the node information up *)
RolledUp == last = Called("nodeinfo_set_all", 0, 0, SLURM_SUCCESS)

(* C26 as stated: the alloc_cpus reported for a node is at most the total *)
(* number of cores of the node, the scaling by threads per core included  *)
C26_AllocCpusAtMostCores ==
  \A n \in Nodes : nodeinfo[n].alloc_cpus <= cr_node_num_cores[n]

(* C26 amended: the count of allocated cores is capped at the cores of the  *)
(* node before it is scaled: alloc_cpus is the number of cores of the node   *)
(* set in some row times the threads per core of a node with more CPUs than *)
(* cores, hence at most the cores of the node times its threads per core    *)
C26_AllocCpusAtMostCoresTimesThreads ==
  /\ \A n \in Nodes :
       nodeinfo[n].alloc_cpus <= cr_node_num_cores[n] * ThreadScale(n)
  /\ RolledUp =>
       \A n \in Nodes :
         nodeinfo[n].alloc_cpus = Cardinality(CoresInUse(n)) * ThreadScale(n)

(* two jobs in two rows share core 0 of node 0 and hold both cores of node *)
(* 1, a node of two threads per core: 2 and 4 CPUs are reported            *)
C26_Witness ==
  /\ RolledUp
  /\ Len(row) = 2
  /\ RowBitmap(row[1]) \cap RowBitmap(row[2]) \cap NodeCoreRange(0) # {}
  /\ ThreadScale(1) = 2
  /\ nodeinfo[0].alloc_cpus = 2
  /\ nodeinfo[1].alloc_cpus = 2 * cr_node_num_cores[1]

(* C27: a roll-up called while last_node_update still has the value it had *)
(* at the previous roll-up returns SLURM_NO_CHANGE_IN_DATA and leaves every *)
(* node's information as it was; the first roll-up after last_node_update  *)
(* advanced computes the information anew and returns SLURM_SUCCESS        *)
C27_CachedUntilNodeUpdate ==
  [][NodeinfoSetAll =>
       /\ last_set_all = last_node_update =>
            /\ last'.rc = SLURM_NO_CHANGE_IN_DATA
            /\ nodeinfo' = nodeinfo
       /\ last_set_all < last_node_update =>
            /\ last'.rc = SLURM_SUCCESS
            /\ last_set_all' = last_node_update
            /\ \A n \in Nodes :
                 nodeinfo'[n].alloc_cpus = Cardinality(CoresInUse(n)) * ThreadScale(n)]_vars

(* ---- the order of the packer ---- *)
(* the lists the packer of the next call inserts, in the order it inserts *)
(* them, one per run                                                      *)
PackerOrders ==
  {[ss |-> qsort(GatherJobs(run.before, run.jt, 1)), jt |-> run.jt] :
     run \in {r \in PackerRuns : Len(r.before) > 1 /\ TotalJobs(r.before) > 0}}

(* the first set core of a job, as a position of the global core map *)
FirstGlobalCore(job) == SetMin(Project(job))

(* C29 as stated: the packer inserts the jobs in ascending order of their   *)
(* first set global core position, the job of more ncpus first among jobs   *)
(* of the same position                                                     *)
C29_AscendingStartLargerFirst ==
  \A o \in PackerOrders :
    \A a, b \in 1 .. Len(o.ss) :
      a < b =>
        LET ja == o.jt[o.ss[a].tmpjobs].job_resrcs
            jb == o.jt[o.ss[b].tmpjobs].job_resrcs
        IN /\ FirstGlobalCore(ja) <= FirstGlobalCore(jb)
           /\ FirstGlobalCore(ja) = FirstGlobalCore(jb) => ja.ncpus >= jb.ncpus


(* ---- dangling jobs ---- *)
(* the packer runs of the next call with the code the caller returns *)
PackerCalls ==
  {[before |-> RemoveFromRow(row, FindJob(row, id)),
    after |-> common_rm_job_res(State, id, 0, TRUE).st.row,
    jt |-> job_table,
    rc |-> common_rm_job_res(State, id, 0, TRUE).rc] : id \in Resident(row)}
  \cup
  {[before |-> row,
    after |-> _rm_job_from_one_node(State, c[1], c[2]).st.row,
    jt |-> _rm_job_from_one_node(State, c[1], c[2]).st.jt,
    rc |-> _rm_job_from_one_node(State, c[1], c[2]).rc] :
     c \in {d \in Resident(row) \X Nodes :
              /\ IS_JOB_RUNNING(job_table[d[1]])
              /\ d[2] \in job_table[d[1]].job_resrcs.node_bitmap
              /\ job_table[d[1]].job_resrcs.nhosts > 1}}

(* C30: when a repack leaves a job dangling the packed layout is discarded: *)
(* every row holds the jobs it held before the call, in the same order,     *)
(* every row bitmap is the OR of the jobs of that list, and the call        *)
(* reports no error                                                         *)
C30_DanglingRestoresLayout ==
  \A run \in PackerCalls :
    Dangling(run) =>
      /\ Len(run.after) = Len(run.before)
      /\ \A i \in 1 .. Len(run.before) :
           /\ run.after[i].job_list = run.before[i].job_list
           /\ run.after[i].num_jobs = run.before[i].num_jobs
           /\ RowBitmap(run.after[i]) = RowOr(run.before[i], run.jt)
      /\ run.rc = SLURM_SUCCESS

(* the next repack leaves a job dangling in rows whose bitmaps still hold   *)
(* cores no job of the row uses, and hands the rows back with their lists   *)
C30_Witness ==
  \E run \in PackerCalls :
    /\ Dangling(run)
    /\ \E i \in 1 .. Len(run.before) :
         RowBitmap(run.before[i]) # RowOr(run.before[i], run.jt)
    /\ \A i \in 1 .. Len(run.before) :
         run.after[i].job_list = run.before[i].job_list
    /\ UsedRows(run.after) >= 2


(* ---- scenario S1 ---- *)
(* the calls of scenario S1 up to the start of j4 (job 4, or job 5 when j4 *)
(* takes the cores of j2)                                                  *)
S1Started(j4) == << <<"add", 1>>, <<"add", 2>>, <<"add", 3>>, <<"add", j4>> >>

(* the row that holds the job, counted from 0; -1 when no row does *)
S1RowOf(id) == FindJob(row, id)[1] - 1

(* the jobs are pairwise disjoint *)
S1Disjoint(ids) ==
  \A a, b \in ids :
    a # b => Project(job_table[a].job_resrcs) \cap Project(job_table[b].job_resrcs) = {}

(* C28: in scenario S1, after j1, j2, j3 and j4 started in that order, j1, *)
(* j2 and j3 are in row 0 and j4 is in row 1; after j1 ended the repack    *)
(* has j2, j3 and j4 in row 0 when they are pairwise disjoint, and leaves  *)
(* j4 in row 1 otherwise                                                   *)
C28_ScenarioS1 ==
  \A j4 \in {4, 5} :
    /\ script = S1Started(j4) =>
         /\ S1RowOf(1) = 0 /\ S1RowOf(2) = 0 /\ S1RowOf(3) = 0
         /\ S1RowOf(j4) = 1
    /\ script = Append(S1Started(j4), <<"rm", 1>>) =>
         IF S1Disjoint({2, 3, j4})
         THEN S1RowOf(2) = 0 /\ S1RowOf(3) = 0 /\ S1RowOf(j4) = 0
         ELSE S1RowOf(2) = 0 /\ S1RowOf(3) = 0 /\ S1RowOf(j4) = 1

(* j1 ended after the four jobs started and the repack gathered j2, j3 and *)
(* j4 in row 0                                                             *)
C28_Witness ==
  /\ script = Append(S1Started(4), <<"rm", 1>>)
  /\ S1Disjoint({2, 3, 4})
  /\ row[1].num_jobs = 3
  /\ row[2].num_jobs = 0

(* j4 took the cores of j2: after j1 ended it is still in row 1 *)
C28_WitnessOverlap ==
  /\ script = Append(S1Started(5), <<"rm", 1>>)
  /\ ~S1Disjoint({2, 3, 5})
  /\ S1RowOf(5) = 1


(* ---- the jobs of the packer ---- *)
(* the rows that hold the job *)
RowsHolding(rw, id) == {i \in 1 .. Len(rw) : id \in RowJobs(rw[i])}

(* C31: the row packer neither loses nor duplicates jobs: on every exit    *)
(* path the jobs resident in the rows after the call are those resident    *)
(* before it, each job is in exactly one row, once, and num_jobs of every  *)
(* row is the length of its job list                                       *)
C31_PackerKeepsJobs ==
  \A run \in PackerCalls :
    /\ Resident(run.after) = Resident(run.before)
    /\ \A id \in Resident(run.after) : Cardinality(RowsHolding(run.after, id)) = 1
    /\ \A i \in 1 .. Len(run.after) :
         /\ run.after[i].num_jobs = Len(run.after[i].job_list)
         /\ Cardinality(RowJobs(run.after[i])) = Len(run.after[i].job_list)

(* the next repack moves a job to another row and keeps every job *)
C31_Witness ==
  \E run \in PackerCalls :
    /\ Cardinality(Resident(run.before)) >= 3
    /\ \E id \in Resident(run.before) :
         RowsHolding(run.after, id) # RowsHolding(run.before, id)
    /\ Resident(run.after) = Resident(run.before)


(* ---- underflow in _rm_job_from_one_node ---- *)
(* the calls <<job, node>> of _rm_job_from_one_node for a job with job   *)
(* resources and any node but the last node the job holds                *)
AnyNodeCalls ==
  {c \in LiveIds \X Nodes :
     /\ job_table[c[1]].has_resrcs
     /\ (c[2] \in job_table[c[1]].job_resrcs.node_bitmap)
          => job_table[c[1]].job_resrcs.nhosts > 1}

(* the call releases memory of the node: the node is in the job's          *)
(* node_bitmap and still has processors of the job                         *)
ReleasesMemory(c) ==
  LET job == job_table[c[1]].job_resrcs
  IN /\ c[2] \in job.node_bitmap
     /\ job.cpus[Rank(job.node_bitmap, c[2]) + 1] # 0

(* the call reaches the adjustment of node_state: it is not a repeated     *)
(* removal and the job is running in a row                                 *)
AdjustsNodeState(c) ==
  LET job == job_table[c[1]].job_resrcs
  IN /\ (c[2] \in job.node_bitmap) => ReleasesMemory(c)
     /\ ~IS_JOB_SUSPENDED(job_table[c[1]])
     /\ FindJob(row, c[1])[1] # 0

(* the memory the job holds on the node of the call *)
MemoryAt(c) ==
  LET job == job_table[c[1]].job_resrcs
  IN job.memory_allocated[Rank(job.node_bitmap, c[2]) + 1]

(* C32: in rm_job_from_one_node an alloc_memory smaller than the job's     *)
(* memory for the node is set to 0 and a node_state smaller than the job's *)
(* node_req is set to NODE_CR_AVAILABLE; the operation goes on and returns *)
(* SLURM_SUCCESS, and neither value ever becomes negative                  *)
C32_UnderflowRepaired ==
  \A c \in AnyNodeCalls :
    LET r == _rm_job_from_one_node(State, c[1], c[2])
        u == select_node_usage[c[2]]
        v == r.st.usage[c[2]]
    IN /\ \A n \in Nodes :
            r.st.usage[n].alloc_memory >= 0 /\ r.st.usage[n].node_state >= 0
       /\ (ReleasesMemory(c) /\ u.alloc_memory < MemoryAt(c)) =>
            /\ v.alloc_memory = 0
            /\ r.rc = SLURM_SUCCESS
       /\ (AdjustsNodeState(c) /\ u.node_state < job_table[c[1]].job_resrcs.node_req) =>
            /\ v.node_state = NODE_CR_AVAILABLE
            /\ r.rc = SLURM_SUCCESS

(* a job can give up a node whose alloc_memory is smaller than the memory *)
(* the job holds there                                                    *)
C32_Witness ==
  \E c \in AnyNodeCalls :
    /\ ReleasesMemory(c)
    /\ select_node_usage[c[2]].alloc_memory < MemoryAt(c)
    /\ _rm_job_from_one_node(State, c[1], c[2]).st.usage[c[2]].alloc_memory = 0
    /\ _rm_job_from_one_node(State, c[1], c[2]).rc = SLURM_SUCCESS

(* a call can find node_state smaller than the job's node_req *)
C32_WitnessNodeState ==
  \E c \in AnyNodeCalls :
    /\ AdjustsNodeState(c)
    /\ select_node_usage[c[2]].node_state < job_table[c[1]].job_resrcs.node_req
    /\ _rm_job_from_one_node(State, c[1], c[2]).rc = SLURM_SUCCESS

(* C33: rm_job_from_one_node for a node that is not, or no longer, in the  *)
(* job's node_bitmap changes nothing: alloc_memory and node_state of the   *)
(* node, the job resources and every row bitmap stay as they were          *)
C33_AbsentNodeChangesNothing ==
  \A c \in AnyNodeCalls :
    c[2] \notin job_table[c[1]].job_resrcs.node_bitmap =>
      LET r == _rm_job_from_one_node(State, c[1], c[2])
      IN /\ r.st.usage[c[2]] = select_node_usage[c[2]]
         /\ r.st.jt[c[1]].job_resrcs = job_table[c[1]].job_resrcs
         /\ \A i \in 1 .. Len(row) : RowBitmap(r.st.row[i]) = RowBitmap(row[i])


(* ------------------- job_expand with 16-bit cpus counts ------------------ *)
(* cpus values the controller can store in the uint16_t cpus[] of a job    *)
WideCpus == {1, 3, 16384, 32768, 49152, 65535}

(* two jobs that hold every core of node 0; the second also a core of node *)
(* 1                                                                        *)
WideRequests ==
  << Req({0}, (0 :> 0 .. LastCore), (0 :> 0), FALSE, NODE_CR_AVAILABLE, FALSE),
     Req({0, 1}, (0 :> 0 .. LastCore) @@ (1 :> {0}),
         (0 :> 0) @@ (1 :> 0), FALSE, NODE_CR_AVAILABLE, FALSE) >>

(* the job record of a request whose cpus[] entries are c0 on its first    *)
(* node and c1 on the others                                                *)
PlaceWide(req, c0, c1) ==
  LET job_ptr == PlaceJob(req)
      cpus == [k \in 1 .. job_ptr.job_resrcs.nhosts |-> IF k = 1 THEN c0 ELSE c1]
  IN [job_ptr EXCEPT !.total_cpus = SumSeq(cpus),
                     !.job_resrcs.cpus = cpus,
                     !.job_resrcs.ncpus = SumSeq(cpus)]

(* the job holds the cpus counts it was started with *)
AsStarted(job_ptr) ==
  /\ \A k \in 1 .. Len(job_ptr.job_resrcs.cpus) : job_ptr.job_resrcs.cpus[k] \in WideCpus
  /\ job_ptr.job_resrcs.ncpus = SumSeq(job_ptr.job_resrcs.cpus)

(* a job with a wide cpus count starts; the workload starts no job while  *)
(* a merged job or an emptied one is around                                *)
AddWide ==
  \E id \in FreeIds \cap (1 .. Len(WideRequests)), c0 \in WideCpus, c1 \in WideCpus :
    /\ \A j \in LiveIds : AsStarted(job_table[j]) /\ job_table[j].job_resrcs.nhosts > 0
    /\ (WideRequests[id].nodes = {0}) => c1 = c0
    /\ FirstFitRow(PlaceWide(WideRequests[id], c0, c1).job_resrcs, row) # 0
    /\ LET r == select_p_select_nodeinfo_set(
                  [State EXCEPT !.jt[id] = PlaceWide(WideRequests[id], c0, c1)], id)
       IN /\ Commit(r)
          /\ last' = Called("add", id, 0, r.rc)
    /\ UNCHANGED <<select_node_record, select_fast_schedule, cr_memory, resv_vars,
                   info_vars, script>>

(* the calls <<from, to>> of job_expand for two running jobs with nodes,   *)
(* both as they were started                                               *)
WideCalls ==
  {c \in LiveIds \X LiveIds :
     /\ c[1] # c[2]
     /\ IS_JOB_RUNNING(job_table[c[1]])
     /\ IS_JOB_RUNNING(job_table[c[2]])
     /\ job_table[c[1]].job_resrcs.nhosts > 0
     /\ job_table[c[2]].job_resrcs.nhosts > 0
     /\ AsStarted(job_table[c[1]])
     /\ AsStarted(job_table[c[2]])}

(* one job hands all its resources to another *)
ExpandWide ==
  \E c \in WideCalls :
    /\ LET r == select_p_job_expand(State, c[1], c[2])
       IN /\ Commit(r)
          /\ last' = Called("expand", c[2], c[1], r.rc)
    /\ UNCHANGED <<select_node_record, select_fast_schedule, cr_memory, resv_vars,
                   info_vars, script>>

InitWide ==
  /\ Idle
  /\ cr_memory = FALSE
  /\ select_fast_schedule = 1
  /\ row = [i \in 1 .. 2 |-> EmptyRow]

NextWide ==
  \/ AddWide
  \/ RmJob
  \/ ExpandWide

SpecWide == InitWide /\ [][NextWide]_vars

(* the nodes both jobs of a call of job_expand use *)
UsedByBoth(c) ==
  job_table[c[1]].job_resrcs.node_bitmap \cap job_table[c[1]].node_bitmap
    \cap job_table[c[2]].job_resrcs.node_bitmap \cap job_table[c[2]].node_bitmap

(* (from.cpus + to.cpus) * new_core_cnt / (from_core_cnt + to_core_cnt) at *)
(* node n in the integers                                                  *)
ScaledCpus(from, to, new, n) ==
  ((JobCpusAt(from, n) + JobCpusAt(to, n)) * Cardinality(LocalCores(new, n)))
    \div (Cardinality(LocalCores(from, n)) + Cardinality(LocalCores(to, n)))

(* C34: in job_expand, for a node used by both jobs, the merged cpus entry *)
(* is floor((from.cpus + to.cpus) * new_core_cnt / (from_core_cnt +        *)
(* to_core_cnt)) for every pair of 16-bit cpus values, with no wrap of the *)
(* sum or of the product in the 16-bit cpus field                          *)
C34_SharedCpusNeverWrap ==
  \A c \in WideCalls :
    LET from == job_table[c[1]].job_resrcs
        to == job_table[c[2]].job_resrcs
        new == _job_expand(State, c[1], c[2]).st.jt[c[2]].job_resrcs
    IN \A n \in UsedByBoth(c) :
         /\ LocalCores(from, n) # {}
         /\ LocalCores(to, n) # {}
         => JobCpusAt(new, n) = ScaledCpus(from, to, new, n)


(* the calls <<from, to>> of job_expand the defensive checks turn down:    *)
(* a job merged with itself, or a job record that holds no job_resrcs (a   *)
(* free record of the job table stands for a job that was never placed)    *)
RefusedCalls ==
  {c \in JobIds \X JobIds :
     \/ c[1] = c[2]
     \/ ~job_table[c[1]].has_resrcs
     \/ ~job_table[c[2]].has_resrcs}

(* C35: job_expand returns an error and leaves the node usage table, the   *)
(* partition rows and both jobs unchanged when from and to are the same    *)
(* job or one of them lacks its job_resrcs; neither job leaves its row     *)
C35_RefusedExpandChangesNothing ==
  \A c \in RefusedCalls :
    LET r == _job_expand(State, c[1], c[2])
    IN /\ r.rc = SLURM_ERROR
       /\ r.st.usage = select_node_usage
       /\ r.st.row = row
       /\ r.st.jt = job_table
       /\ FindJob(r.st.row, c[1]) = FindJob(row, c[1])
       /\ FindJob(r.st.row, c[2]) = FindJob(row, c[2])

(* a job resident in a row is merged with itself, and a resident job is    *)
(* merged with a job that holds no job_resrcs: both calls are errors       *)
C35_Witness ==
  \E id \in LiveIds, other \in FreeIds :
    /\ FindJob(row, id)[1] # 0
    /\ select_node_usage[SetMin(job_table[id].job_resrcs.node_bitmap)].alloc_memory > 0
    /\ <<id, id>> \in RefusedCalls
    /\ <<id, other>> \in RefusedCalls
    /\ <<other, id>> \in RefusedCalls
    /\ _job_expand(State, id, id).rc = SLURM_ERROR
    /\ _job_expand(State, id, other).rc = SLURM_ERROR
    /\ _job_expand(State, other, id).rc = SLURM_ERROR


(* ------------- job_expand with controller node bitmaps of their own ----- *)
(* the controller rewrites job_ptr->node_bitmap of a running job; the job  *)
(* keeps at least one node of its job_resrcs                               *)
SetNodeBitmap ==
  \E id \in LiveIds, nb \in SUBSET Nodes :
    /\ IS_JOB_RUNNING(job_table[id])
    /\ job_table[id].job_resrcs.nhosts > 0
    /\ nb \cap job_table[id].job_resrcs.node_bitmap # {}
    /\ nb # job_table[id].node_bitmap
    /\ job_table' = [job_table EXCEPT ![id].node_bitmap = nb]
    /\ last' = Called("node_bitmap", id, 0, SLURM_SUCCESS)
    /\ UNCHANGED <<select_node_usage, row>>
    /\ UNCHANGED <<select_node_record, select_fast_schedule, cr_memory, resv_vars,
                   info_vars, script>>

NextSkew ==
  \/ AddJobIn(MergeJobs)
  \/ RmJob
  \/ SetNodeBitmap
  \/ Expand

SpecSkew == InitMerge /\ [][NextSkew]_vars

(* from_node_used / to_node_used of the merge loop for node n *)
NodeUsed(job_ptr, n) ==
  n \in job_ptr.job_resrcs.node_bitmap /\ n \in job_ptr.node_bitmap

(* what a job contributes to the merged record at node n *)
CpusGiven(job_ptr, n) ==
  IF NodeUsed(job_ptr, n) THEN JobCpusAt(job_ptr.job_resrcs, n) ELSE 0

MemGiven(job_ptr, n) ==
  IF NodeUsed(job_ptr, n) THEN JobMemAt(job_ptr.job_resrcs, n) ELSE 0

CoresGiven(job_ptr, n) ==
  IF NodeUsed(job_ptr, n) THEN LocalCores(job_ptr.job_resrcs, n) ELSE {}

(* the merged record new holds at the rank of node n what from and to gave *)
(* for node n                                                              *)
RankHolds(new, from_job_ptr, to_job_ptr, n) ==
  LET both == Cardinality(CoresGiven(from_job_ptr, n)) +
              Cardinality(CoresGiven(to_job_ptr, n))
      distinct == Cardinality(CoresGiven(from_job_ptr, n) \cup
                              CoresGiven(to_job_ptr, n))
      sum == CpusGiven(from_job_ptr, n) + CpusGiven(to_job_ptr, n)
  IN /\ JobCpusAt(new, n) =
          (IF NodeUsed(from_job_ptr, n) /\ NodeUsed(to_job_ptr, n) /\ both # distinct
           THEN (sum * distinct) \div both ELSE sum)
     /\ JobMemAt(new, n) = MemGiven(from_job_ptr, n) + MemGiven(to_job_ptr, n)
     /\ LocalCores(new, n) = CoresGiven(from_job_ptr, n) \cup CoresGiven(to_job_ptr, n)

(* C36: after job_expand the merged job_resrcs is indexed by rank: for     *)
(* every node n of its node_bitmap the cpus, memory_allocated and core     *)
(* bits at rank(n) are the ones from and to gave for n, and the number of  *)
(* positions written (nodes used by from or to) equals nhosts, for every   *)
(* combination of the job_resrcs node bitmaps and the controller's node    *)
(* bitmaps of the two jobs                                                 *)
C36_MergedIndexedByRank ==
  \A c \in ExpandCalls :
    LET new == _job_expand(State, c[1], c[2]).st.jt[c[2]].job_resrcs
    IN /\ new.nhosts = Cardinality(new.node_bitmap)
       /\ new.nhosts = Cardinality({n \in Nodes : \/ NodeUsed(job_table[c[1]], n)
                                                  \/ NodeUsed(job_table[c[2]], n)})
       /\ \A n \in new.node_bitmap :
            RankHolds(new, job_table[c[1]], job_table[c[2]], n)


(* ------------------- job_expand in a crowded partition ------------------ *)
(* the job is resident in exactly one row and all its cores are set in     *)
(* that row's bitmap                                                       *)
ResidentInOneRow(st, id) ==
  /\ Cardinality(RowsHolding(st.row, id)) = 1
  /\ \A i \in RowsHolding(st.row, id) :
       Project(st.jt[id].job_resrcs) \subseteq RowBitmap(st.row[i])

(* C37: whenever job_expand returns success the merged to job is resident  *)
(* in exactly one row of its partition with all its cores set in that      *)
(* row's bitmap; job_expand does not report success when the merged job    *)
(* could not be added back to any row                                      *)
C37_SuccessMeansResident ==
  \A c \in ExpandCalls :
    LET r == _job_expand(State, c[1], c[2])
    IN (r.rc = SLURM_SUCCESS) => ResidentInOneRow(r.st, c[2])


(* ---- reservation planner: node_cnt, core ranges and termination ---- *)
(* C38: in FIRST_CORES mode the planner stops once node_cnt nodes have     *)
(* been selected: for node_cnt > 0 the returned selection never has more   *)
(* than node_cnt nodes, even when the core_cnt array has more than         *)
(* node_cnt non-zero entries                                               *)
C38_FirstCoresAtMostNodeCnt ==
  (ResvSelected /\ resv.op = "first_cores" /\ resv.in.node_cnt > 0) =>
    Cardinality(resv.out.nodes.bits) <= resv.in.node_cnt


(* C39: on every successful return of the reservation planner with a       *)
(* core_cnt, each bit set in the output core_bitmap lies in the core range *)
(* of a node of the returned selection (no core is reserved on a node that *)
(* was skipped or not selected), and each selected node has at least one   *)
(* core set                                                                *)
C39_CoresOnSelectedNodesOnly ==
  (ResvSelected /\ resv.in.core_cnt.has) =>
    /\ resv.out.core_bitmap.bits \subseteq
         UNION {NodeCoreRange(n) : n \in resv.out.nodes.bits}
    /\ \A n \in resv.out.nodes.bits :
         resv.out.core_bitmap.bits \cap NodeCoreRange(n) # {}


(* ---- the core selection of the topology strategy, pass by pass ---- *)
(* lines 2103-2104 without the test of prev_rem_cores *)
PickAgain_always(s, aggr) ==
  bit_ffs(s.avail_nodes_bitmap) < 0 /\ aggr /\ s.rem_cores > 0

(* lines 2103-2104: no node is left, the request is an aggregate one and    *)
(* the residual differs from the one the last pass started with             *)
PickAgain(s, aggr) ==
  bit_ffs(s.avail_nodes_bitmap) < 0 /\ aggr /\ s.rem_cores > 0
    /\ s.rem_cores # s.prev_rem_cores

(* lines 2097-2160: one turn of while (rem_cores); the state it is given    *)
(* when the loop is left (rem_cores = 0, or no node and no further pass)    *)
PickStep(s, core_cnt, aggr) ==
  IF s.rem_cores = 0 THEN s
  ELSE
    LET s0 == IF PickAgain(s, aggr)
              THEN [s EXCEPT !.avail_nodes_bitmap = @ \cup s.sp_avail_bitmap,
                             !.prev_rem_cores = s.rem_cores,
                             !.cores_per_node = 1]
              ELSE s
        inx == bit_ffs(s0.avail_nodes_bitmap)
    IN IF inx < 0 THEN s0
       ELSE
         LET s1 == [s0 EXCEPT !.avail_nodes_bitmap = @ \ {inx}]
             free == Cardinality(FreeCoresOf(s0.exc_core_bitmap, inx))
         IN IF cr_node_num_cores[inx] < s0.cores_per_node
               \/ free < s0.cores_per_node
            THEN s1
            ELSE
              LET t == PickTakeCores([core_bitmap |-> s0.core_bitmap,
                                      exc_core_bitmap |-> s0.exc_core_bitmap,
                                      rem_cores |-> s0.rem_cores,
                                      avail_cores_in_node |-> 0],
                                     0, inx, core_cnt, s0.n, aggr,
                                     s0.cores_per_node)
              IN [s1 EXCEPT !.core_bitmap = t.core_bitmap,
                            !.exc_core_bitmap = t.exc_core_bitmap,
                            !.rem_cores = t.rem_cores,
                            !.sp_avail_bitmap = @ \cup {inx},
                            !.n = @ + 1]

(* lines 2085-2096: the loop is entered for a request with a core_cnt, with *)
(* the nodes the leaf switches gave and the cores that are excluded         *)
PickStart ==
  /\ resv.op = "none"
  /\ switch_record_cnt # 0
  /\ \E core_cnt \in CoreCntInputs \ {NoCoreCnt}, node_cnt \in 1 .. NodeCnt,
        avail_nodes_bitmap \in (SUBSET Nodes) \ {{}}, core_bitmap \in CoreBitmapInputs :
       resv' = [op |-> "picking",
                in |-> ResvRequest(FALSE, core_cnt, node_cnt, avail_nodes_bitmap,
                                   core_bitmap),
                out |-> NoResv.out,
                pick |-> [avail_nodes_bitmap |-> avail_nodes_bitmap,
                          sp_avail_bitmap |-> {},
                          core_bitmap |-> {},
                          exc_core_bitmap |->
                            _spec_core_filter(avail_nodes_bitmap, core_bitmap).bits,
                          rem_cores |-> ResvRemCores(core_cnt),
                          n |-> 0,
                          prev_rem_cores |-> -1,
                          cores_per_node |-> ResvCoresPerNode(node_cnt, core_cnt)]]
  /\ UNCHANGED <<select_node_record, select_node_usage, row, job_table,
                 select_fast_schedule, cr_memory, last,
                 switch_record_table, spec_cores, info_vars, script>>

(* one turn of the loop *)
PickIterate ==
  /\ resv.op = "picking"
  /\ PickStep(resv.pick, resv.in.core_cnt, ResvAggr(resv.in.core_cnt)) # resv.pick
  /\ resv' = [resv EXCEPT
                !.pick = PickStep(@, resv.in.core_cnt, ResvAggr(resv.in.core_cnt))]
  /\ UNCHANGED <<select_node_record, select_node_usage, row, job_table,
                 select_fast_schedule, cr_memory, last,
                 switch_record_table, spec_cores, info_vars, script>>

(* lines 2162-2170: the loop is left; NULL is returned when cores remain *)
PickReturn ==
  /\ resv.op = "picking"
  /\ PickStep(resv.pick, resv.in.core_cnt, ResvAggr(resv.in.core_cnt)) = resv.pick
  /\ resv' = [resv EXCEPT
                !.op = "topology",
                !.out = [nodes |-> IF resv.pick.rem_cores # 0 THEN NullMap
                                   ELSE Map(resv.pick.sp_avail_bitmap),
                         core_bitmap |-> Map(resv.pick.core_bitmap),
                         avail_bitmap |-> resv.in.avail_bitmap]]
  /\ UNCHANGED <<select_node_record, select_node_usage, row, job_table,
                 select_fast_schedule, cr_memory, last,
                 switch_record_table, spec_cores, info_vars, script>>

NextSweep ==
  \/ PickStart
  \/ PickIterate
  \/ PickReturn

(* the call runs on: a loop that can take a turn takes it, and a loop that *)
(* is left returns                                                         *)
SpecSweep ==
  InitResv /\ [][NextSweep]_vars /\ WF_vars(PickIterate) /\ WF_vars(PickReturn)

(* a further pass over the selected nodes is about to start *)
SweepDue ==
  /\ resv.op = "picking"
  /\ PickAgain(resv.pick, ResvAggr(resv.in.core_cnt))

(* the pass that just ended took at least one core *)
SweepReduced ==
  resv.pick.rem_cores <
    (IF resv.pick.prev_rem_cores = -1 THEN ResvRemCores(resv.in.core_cnt)
     ELSE resv.pick.prev_rem_cores)

(* the loop gives what the planner's core selection computes in one go *)
SweepAgrees ==
  resv.op = "picking" =>
    LET f == PickCores(resv.pick, resv.in.core_cnt, ResvAggr(resv.in.core_cnt))
        g == PickCores(PickStep(resv.pick, resv.in.core_cnt,
                                ResvAggr(resv.in.core_cnt)),
                       resv.in.core_cnt, ResvAggr(resv.in.core_cnt))
    IN /\ f.rem_cores = g.rem_cores
       /\ f.core_bitmap = g.core_bitmap
       /\ f.sp_avail_bitmap = g.sp_avail_bitmap

(* the call has returned: a selection with residual 0, NULL otherwise *)
SweepReturned ==
  /\ resv.op = "topology"
  /\ resv.out.nodes.has <=> resv.pick.rem_cores = 0

(* C40: the planner's core-selection loop terminates for every input: in   *)
(* aggregate mode a further sweep over the selected nodes is started only  *)
(* when the previous sweep reduced the residual core count, and the call   *)
(* ends with residual 0 (success) or with failure                          *)
C40_SweepOnlyAfterProgress ==
  /\ [](SweepDue => SweepReduced)
  /\ (resv.op = "picking") ~> SweepReturned

(* C40 amended: the loop terminates for every input; the second sweep is   *)
(* started whenever the first one leaves a residual, whether it took a     *)
(* core or not, and every later sweep only when the sweep before it        *)
(* reduced the residual; the call ends with residual 0 (success) or with   *)
(* failure                                                                 *)
C40_SweepsTerminate ==
  /\ [](SweepDue => (resv.pick.prev_rem_cores = -1 \/ SweepReduced))
  /\ []SweepAgrees
  /\ (resv.op = "picking") ~> SweepReturned

(* an aggregate request whose first sweep took no core: every selected     *)
(* node has its first core excluded; the second sweep is about to start    *)
C40_Witness ==
  /\ SweepDue
  /\ resv.pick.prev_rem_cores = -1
  /\ resv.pick.sp_avail_bitmap = Nodes
  /\ resv.pick.rem_cores = ResvRemCores(resv.in.core_cnt)

====
